---- MODULE Spec2Model ----
(***************************************************************************)
(* Model of the BWT MyService integration                                  *)
(* (custom_components/bwt_monservice): the API client (api.py), the        *)
(* config entry and its coordinator (__init__.py, coordinator.py), the     *)
(* entities (sensor.py, binary_sensor.py) and the setup form               *)
(* (config_flow.py).                                                       *)
(*                                                                         *)
(* Python strings are modelled as sequences of chunks (TLA+ strings): a    *)
(* substring test "p in text" is the presence of the chunk p, lower()      *)
(* maps the chunks one by one, split() cuts the sequence at a separator    *)
(* chunk.  Optional values: None is <<>>, a value x is <<x>>.              *)
(***************************************************************************)
EXTENDS Integers, Sequences, FiniteSets, TLC

VARIABLES
    is_authenticated,   \* BWTApiClient._is_authenticated
    username,           \* BWTApiClient._username (None or a string)
    password,           \* BWTApiClient._password (None or a string)
    receipt_line_key,   \* BWTApiClient._receipt_line_key (None or a string)
    stack,              \* the running coroutines, innermost last
    ret,                \* what the coroutine that just finished handed over
    call,               \* the public operation in progress or last finished
    log,                \* the requests issued by that operation, in order
    fin,                \* input of the function under check (function specs)
    fout,               \* its output
    session_closed,     \* aiohttp.ClientSession.closed of the client's session
    session_closes,     \* how many times that session's close() has run
    coordinator_data,   \* BWTDataUpdateCoordinator.data (None or a record)
    last_update_success,\* BWTDataUpdateCoordinator.last_update_success
    loaded,             \* hass.data[DOMAIN] holds the entry's coordinator
    entries,            \* the config entries created by the setup form
    portal              \* the portal's side of the login session

vars == <<is_authenticated, username, password, receipt_line_key,
          stack, ret, call, log, fin, fout,
          session_closed, session_closes,
          coordinator_data, last_update_success, loaded, entries, portal>>

client == <<is_authenticated, username, password, receipt_line_key>>
machine == <<stack, ret, call, log>>
session == <<session_closed, session_closes>>
host == <<coordinator_data, last_update_success, loaded, entries>>

----------------------------------------------------------------------------
(* Bounds of the model. *)

MaxBodyLen == 2
MaxUrlLen == 2

----------------------------------------------------------------------------
(* Python values. *)

None == <<>>
Some(x) == <<x>>

\* bool(s) of an Optional[str]: None and "" are falsy.
Truthy(opt) == opt # None /\ opt[1] # ""

\* "p in text"
Contains(text, p) == \E i \in 1..Len(text) : text[i] = p

\* str.lower(), chunk by chunk.
LowerChunk(c) ==
    CASE c = "Identifiants Invalides" -> "identifiants invalides"
      [] c = "Invalid Credentials" -> "invalid credentials"
      [] c = "_USERNAME" -> "_username"
      [] c = "Dashboard" -> "dashboard"
      [] OTHER -> c

Lower(text) == [i \in 1..Len(text) |-> LowerChunk(text[i])]

SeqsUpTo(S, n) == UNION {[1..k -> S] : k \in 0..n}

\* str(response.status)
StatusStr(s) ==
    CASE s = 200 -> "200"
      [] s = 401 -> "401"
      [] s = 403 -> "403"
      [] s = 404 -> "404"
      [] s = 500 -> "500"
      [] OTHER -> "0"

----------------------------------------------------------------------------
(* Results of a coroutine: a returned value or a raised exception. *)

NoRet == [kind |-> "none", cls |-> "", msg |-> <<>>, val |-> None]
Return(v) == [kind |-> "return", cls |-> "", msg |-> <<>>, val |-> Some(v)]
Raise(c, m) == [kind |-> "raise", cls |-> c, msg |-> m, val |-> None]

\* What the transport can raise instead of answering.
TransportErrors == {"ClientError", "TimeoutError", "Exception"}

TransportMsg == <<"Cannot connect to host">>

----------------------------------------------------------------------------
(* authenticate: classification of the login POST (api.py 85-130). *)

\* The except clauses of authenticate (api.py 120-130).
WrapAuthenticateError(e) ==
    CASE e.cls = "AuthenticationError" -> e
      [] e.cls = "ClientError" ->
            Raise("ConnectionError", <<"Connection error during authentication: ">> \o e.msg)
      [] e.cls = "TimeoutError" ->
            Raise("ConnectionError", <<"Timeout during authentication">>)
      [] OTHER ->
            Raise("ConnectionError", <<"Unexpected error: ">> \o e.msg)

\* Mutant: the phrases are looked for in the text as received.
LoginTextLower_AsReceived(text) == text

\* text.lower() as authenticate uses it (api.py 105).
LoginTextLower(text) == Lower(text)

\* Mutant: the body is classified before the final URL is looked at.
ClassifyLogin_BodyFirst(auth, resp) ==
    IF resp.err # "none"
    THEN [ret |-> Raise(resp.err, TransportMsg), is_authenticated |-> auth]
    ELSE IF resp.status # 200
    THEN [ret |-> Raise("AuthenticationError",
                        <<"Login failed with status ", StatusStr(resp.status)>>),
          is_authenticated |-> auth]
    ELSE IF resp.text_err # "none"
    THEN [ret |-> Raise(resp.text_err, TransportMsg), is_authenticated |-> auth]
    ELSE IF \/ Contains(LoginTextLower(resp.text), "identifiants invalides")
            \/ Contains(LoginTextLower(resp.text), "invalid credentials")
    THEN [ret |-> Raise("AuthenticationError", <<"Invalid credentials">>),
          is_authenticated |-> auth]
    ELSE IF Contains(resp.text, "_username") \/ Contains(resp.text, "_password")
    THEN [ret |-> Raise("AuthenticationError",
                        <<"Authentication failed - login form still present">>),
          is_authenticated |-> auth]
    ELSE [ret |-> Return(TRUE), is_authenticated |-> TRUE]

\* Mutant: a body that still shows the login form is not refused.
ClassifyLogin_NoFormCheck(auth, resp) ==
    IF resp.err # "none"
    THEN [ret |-> Raise(resp.err, TransportMsg), is_authenticated |-> auth]
    ELSE IF resp.status # 200
    THEN [ret |-> Raise("AuthenticationError",
                        <<"Login failed with status ", StatusStr(resp.status)>>),
          is_authenticated |-> auth]
    ELSE IF resp.text_err # "none"
    THEN [ret |-> Raise(resp.text_err, TransportMsg), is_authenticated |-> auth]
    ELSE IF Contains(resp.url, "dashboard")
    THEN [ret |-> Return(TRUE), is_authenticated |-> TRUE]
    ELSE IF \/ Contains(LoginTextLower(resp.text), "identifiants invalides")
            \/ Contains(LoginTextLower(resp.text), "invalid credentials")
    THEN [ret |-> Raise("AuthenticationError", <<"Invalid credentials">>),
          is_authenticated |-> auth]
    ELSE [ret |-> Return(TRUE), is_authenticated |-> TRUE]

\* The body of the "async with session.post" block (api.py 85-118): the
\* result and the new value of _is_authenticated.
\* resp: err (what the transport raised, "none" if it answered), status,
\* url (final URL), text_err (what reading the body raised), text.
ClassifyLogin(auth, resp) ==
    IF resp.err # "none"
    THEN [ret |-> Raise(resp.err, TransportMsg), is_authenticated |-> auth]
    ELSE IF resp.status # 200
    THEN [ret |-> Raise("AuthenticationError",
                        <<"Login failed with status ", StatusStr(resp.status)>>),
          is_authenticated |-> auth]
    ELSE IF resp.text_err # "none"
    THEN [ret |-> Raise(resp.text_err, TransportMsg), is_authenticated |-> auth]
    ELSE IF Contains(resp.url, "dashboard")
    THEN [ret |-> Return(TRUE), is_authenticated |-> TRUE]
    ELSE IF \/ Contains(LoginTextLower(resp.text), "identifiants invalides")
            \/ Contains(LoginTextLower(resp.text), "invalid credentials")
    THEN [ret |-> Raise("AuthenticationError", <<"Invalid credentials">>),
          is_authenticated |-> auth]
    ELSE IF Contains(resp.text, "_username") \/ Contains(resp.text, "_password")
    THEN [ret |-> Raise("AuthenticationError",
                        <<"Authentication failed - login form still present">>),
          is_authenticated |-> auth]
    ELSE [ret |-> Return(TRUE), is_authenticated |-> TRUE]

\* authenticate from the POST on (api.py 85-130).
AuthenticatePost(auth, resp) ==
    LET r == ClassifyLogin(auth, resp)
    IN  IF r.ret.kind = "raise"
        THEN [ret |-> WrapAuthenticateError(r.ret), is_authenticated |-> r.is_authenticated]
        ELSE r

\* Login responses.
LoginStatuses == {200, 401, 500}
UrlChunks == {"/login", "dashboard", "Dashboard"}
BodyChunks == {"identifiants invalides", "Identifiants Invalides",
               "invalid credentials", "Invalid Credentials",
               "_username", "_password", "_USERNAME", "bienvenue"}

LoginAnswer(s, u, te, t) ==
    [err |-> "none", status |-> s, url |-> u, text_err |-> te, text |-> t]
LoginFailure(e) ==
    [err |-> e, status |-> 0, url |-> <<>>, text_err |-> "none", text |-> <<>>]

LoginResponses ==
    {LoginFailure(e) : e \in TransportErrors}
    \cup {LoginAnswer(s, u, "none", t) :
            s \in LoginStatuses, u \in SeqsUpTo(UrlChunks, MaxUrlLen),
            t \in SeqsUpTo(BodyChunks, MaxBodyLen)}
    \cup {LoginAnswer(200, u, e, <<>>) :
            u \in SeqsUpTo(UrlChunks, MaxUrlLen), e \in TransportErrors}

----------------------------------------------------------------------------
(* Python dicts: functions from keys to values. *)

EmptyDict == <<>>

\* d[k] = v
Put(d, k, v) == [x \in (DOMAIN d) \cup {k} |-> IF x = k THEN v ELSE d[x]]

\* Mutant: the argument's entries are added only where the key is new.
DictUpdate_KeepOwn(d, other) ==
    [x \in (DOMAIN d) \cup (DOMAIN other) |-> IF x \in DOMAIN d THEN d[x] ELSE other[x]]

\* d.update(other)
DictUpdate(d, other) ==
    [x \in (DOMAIN d) \cup (DOMAIN other) |-> IF x \in DOMAIN other THEN other[x] ELSE d[x]]

\* JSON scalars of the history table: integers and strings.
JInt(n) == [t |-> "int", n |-> n, s |-> <<>>]
JStr(s) == [t |-> "str", n |-> 0, s |-> s]

\* Decimal digits of the integers the model uses.
IntStr(n) ==
    CASE n = 0 -> "0"
      [] n = 1 -> "1"
      [] n = 3 -> "3"
      [] n = 120 -> "120"
      [] n = 2024 -> "2024"
      [] OTHER -> "n"

\* str(value)
Str(v) == IF v.t = "str" THEN v.s ELSE <<IntStr(v.n)>>

\* s.startswith(prefix)
StartsWith(s, prefix) ==
    /\ Len(s) >= Len(prefix)
    /\ SubSeq(s, 1, Len(prefix)) = prefix

----------------------------------------------------------------------------
(* get_receipt_line_key: the dashboard page (api.py 185-202). *)

\* The chunks of text from position i up to the first chunk in stops.
RECURSIVE UpTo(_, _, _)
UpTo(text, i, stops) ==
    IF i > Len(text) \/ text[i] \in stops
    THEN <<>>
    ELSE <<text[i]>> \o UpTo(text, i + 1, stops)

\* The chunks joined into one Python string.
RECURSIVE Join(_)
Join(chunks) == IF chunks = <<>> THEN "" ELSE Head(chunks) \o Join(Tail(chunks))

\* href.split("receiptLineKey=")[1].split("&")[0]   (api.py 196)
ExtractKey(href) ==
    LET i == CHOOSE j \in 1..Len(href) :
                 /\ href[j] = "receiptLineKey="
                 /\ \A k \in 1..(j - 1) : href[k] # "receiptLineKey="
    IN  Join(UpTo(href, i + 1, {"receiptLineKey=", "&"}))

\* soup.find("a", href=lambda x: x and "receiptLineKey=" in x): the index of
\* the first such anchor, 0 when there is none.  A page is the sequence of
\* its anchors' href attributes (None for an anchor without href).
FindDeviceLink(page) ==
    LET hits == {i \in 1..Len(page) :
                    page[i] # None /\ Contains(page[i][1], "receiptLineKey=")}
    IN  IF hits = {} THEN 0 ELSE CHOOSE i \in hits : \A j \in hits : i <= j

\* api.py 185-202: the key of the page, or DataNotFoundError.
ParseDashboard(page) ==
    LET i == FindDeviceLink(page)
    IN  IF i = 0
        THEN Raise("DataNotFoundError", <<"No device found in dashboard">>)
        ELSE Return(ExtractKey(page[i][1]))

----------------------------------------------------------------------------
(* _fetch_ajax_data: the JSON body (api.py 287-370). *)

\* "dataset" is the body's dataset field: islist says whether it is an array,
\* len its length, elem the array's first element or the value itself; elem
\* is an object (isdict) with the fields obj, or something else.
\* history: None, or [isdict, codes, lines] with codes and lines Optional.

\* api.py 316-324: lastSeenDateTime.
IsoDateTimes == {"2024-01-02T10:00:00"}

\* last_seen.replace("Z", "+00:00")
ReplaceZ(s) == [i \in 1..Len(s) |-> IF s[i] = "Z" THEN "+00:00" ELSE s[i]]

\* datetime.fromisoformat(s) succeeds
IsIsoFormat(s) ==
    /\ Len(s) \in {1, 2}
    /\ s[1] \in IsoDateTimes
    /\ Len(s) = 2 => s[2] = "+00:00"

LastSeen(data, obj) ==
    IF obj.lastSeenDateTime = None \/ obj.lastSeenDateTime[1] = <<>>
    THEN data
    ELSE LET last_seen == obj.lastSeenDateTime[1]
         IN  IF IsIsoFormat(ReplaceZ(last_seen))
             THEN Put(data, "last_seen", ReplaceZ(last_seen))
             ELSE Put(data, "last_seen", last_seen)

\* dataset.get(name, False)
GetFlag(opt) == IF opt = None THEN FALSE ELSE opt[1]

\* Mutant: the first row of the table is taken for today's.
FindToday_FirstRow(lines, today_str) ==
    LET hits == {i \in 1..Len(lines) : lines[i] # <<>>}
    IN  IF hits = {} THEN 0 ELSE CHOOSE i \in hits : \A j \in hits : i <= j

\* api.py 334-342: the index of the first non-empty row whose first column,
\* as a string, starts with today_str; 0 when there is none.
FindToday(lines, today_str) ==
    LET hits == {i \in 1..Len(lines) :
                    lines[i] # <<>> /\ StartsWith(Str(lines[i][1]), today_str)}
    IN  IF hits = {} THEN 0 ELSE CHOOSE i \in hits : \A j \in hits : i <= j

\* api.py 358-367: the record key of a column code, "" for any other code.
CodeKey(code) ==
    CASE code = "date" -> "data_date"
      [] code = "regenCount" -> "regen_count"
      [] code = "powerOutage" -> "power_outage"
      [] code = "waterUse" -> "water_use"
      [] code = "saltAlarm" -> "salt_alarm"
      [] OTHER -> ""

\* api.py 354-367: the loop over enumerate(codes), from position i on.
RECURSIVE MapCodes(_, _, _, _)
MapCodes(data, codes, today_data, i) ==
    IF i > Len(codes)
    THEN data
    ELSE IF i <= Len(today_data) /\ CodeKey(codes[i]) # ""
    THEN MapCodes(Put(data, CodeKey(codes[i]), today_data[i]), codes, today_data, i + 1)
    ELSE MapCodes(data, codes, today_data, i + 1)

\* api.py 345-351: the defaults of a day without a row.
ZeroDefaults(data, today_str) ==
    Put(Put(Put(Put(Put(data, "data_date", JStr(today_str)),
        "regen_count", JInt(0)), "power_outage", JInt(0)),
        "water_use", JInt(0)), "salt_alarm", JInt(0))

\* api.py 326-367: the history table.
History(data, codes, lines, today_str) ==
    IF lines # <<>>
    THEN LET i == FindToday(lines, today_str)
         IN  IF i = 0
             THEN ZeroDefaults(data, today_str)
             ELSE MapCodes(data, codes, lines[i], 1)
    ELSE data

\* api.py 310-370: the record of a dataset object.
ParseDataset(obj, today_str) ==
    LET flags == Put(Put(Put(EmptyDict,
                    "connectable", GetFlag(obj.connectable)),
                    "connected", GetFlag(obj.connected)),
                    "online", GetFlag(obj.online))
        data == LastSeen(flags, obj)
    IN  IF obj.history = None
        THEN Return(data)
        ELSE IF ~obj.history[1].isdict
        THEN Raise("AttributeError", <<"object has no attribute 'get'">>)
        ELSE LET h == obj.history[1]
                 codes == IF h.codes = None THEN <<>> ELSE h.codes[1]
                 lines == IF h.lines = None THEN <<>> ELSE h.lines[1]
             IN  Return(History(data, codes, lines, today_str))

\* api.py 287-370: from response.json() to the returned record.
\* body: json_err (what response.json() raised), top (the kind of the
\* decoded value), dataset (None when the body has no "dataset").
ParseAjaxBody(body, today_str) ==
    IF body.json_err # "none"
    THEN Raise(body.json_err, <<"Attempt to decode JSON failed">>)
    ELSE IF body.top = "scalar"
    THEN Raise("TypeError", <<"argument is not iterable">>)
    ELSE IF body.dataset = None
    THEN Raise("DataNotFoundError", <<"Invalid JSON structure: missing 'dataset'">>)
    ELSE IF body.top = "list"
    THEN Raise("TypeError", <<"list indices must be integers">>)
    ELSE LET dataset == body.dataset[1]
         IN  IF dataset.islist /\ dataset.len = 0
             THEN Raise("DataNotFoundError", <<"Dataset list is empty">>)
             ELSE IF ~dataset.elem.isdict
             THEN Raise("DataNotFoundError", <<"Invalid dataset type">>)
             ELSE ParseDataset(dataset.elem.obj, today_str)

\* Mutant: no except clause turns the client error into ConnectionError.
WrapAjaxError_Unwrapped(e) == e

\* The except clauses of _fetch_ajax_data (api.py 372-377).
WrapAjaxError(e) ==
    CASE e.cls \in {"ConnectionError", "DataNotFoundError"} -> e
      [] e.cls = "ClientError" ->
            Raise("ConnectionError", <<"Connection error fetching AJAX data: ">> \o e.msg)
      [] e.cls = "TimeoutError" ->
            Raise("ConnectionError", <<"Timeout fetching AJAX data">>)
      [] OTHER -> e

\* Mutant: a status other than 200, 401, 403 and 500 counts as missing data.
StatusPolicy_NotFound(status, what) ==
    IF status \in {401, 403}
    THEN Raise("ClientError", <<"Session expired: ", StatusStr(status)>>)
    ELSE IF status = 500
    THEN Raise("ConnectionError", <<"Server overload (500)">>)
    ELSE IF status # 200
    THEN Raise("DataNotFoundError", <<"Failed to fetch ", what, StatusStr(status)>>)
    ELSE NoRet

\* The status policy of both scrapers (api.py 274-285, 401-412): what the
\* status raises, NoRet for 200.
StatusPolicy(status, what) ==
    IF status \in {401, 403}
    THEN Raise("ClientError", <<"Session expired: ", StatusStr(status)>>)
    ELSE IF status = 500
    THEN Raise("ConnectionError", <<"Server overload (500)">>)
    ELSE IF status # 200
    THEN Raise("ConnectionError", <<"Failed to fetch ", what, StatusStr(status)>>)
    ELSE NoRet

\* _fetch_ajax_data (api.py 251-377).
\* resp: err (what the transport raised), status, body.
FetchAjaxData(resp, today_str) ==
    LET r == IF resp.err # "none"
             THEN Raise(resp.err, TransportMsg)
             ELSE IF StatusPolicy(resp.status, "AJAX data: ") # NoRet
             THEN StatusPolicy(resp.status, "AJAX data: ")
             ELSE ParseAjaxBody(resp.body, today_str)
    IN  IF r.kind = "raise" THEN WrapAjaxError(r) ELSE r

----------------------------------------------------------------------------
(* _fetch_html_data: the device page (api.py 414-445). *)

\* str.strip(): leading and trailing blanks removed.
RECURSIVE LStrip(_)
LStrip(s) == IF s # <<>> /\ Head(s) = " " THEN LStrip(Tail(s)) ELSE s

RECURSIVE RStrip(_)
RStrip(s) ==
    IF s # <<>> /\ s[Len(s)] = " " THEN RStrip(SubSeq(s, 1, Len(s) - 1)) ELSE s

Strip(s) == LStrip(RStrip(s))

\* text.split(sep): the parts between the chunks sep.
RECURSIVE Split(_, _)
Split(s, sep) ==
    IF ~Contains(s, sep)
    THEN <<s>>
    ELSE LET i == CHOOSE j \in 1..Len(s) :
                      s[j] = sep /\ \A k \in 1..(j - 1) : s[k] # sep
         IN  <<SubSeq(s, 1, i - 1)>> \o Split(SubSeq(s, i + 1, Len(s)), sep)

\* text.split(sep)[-1]
LastPart(s, sep) == LET parts == Split(s, sep) IN parts[Len(parts)]

\* api.py 436-442: day, month, year = date_str.split("-"), ValueError unless
\* there are exactly three parts.
ConvertServiceDate(date_str) ==
    LET parts == Split(date_str, "-")
    IN  IF Len(parts) = 3
        THEN parts[3] \o <<"-">> \o parts[2] \o <<"-">> \o parts[1]
        ELSE date_str

\* api.py 428-442: one span of the informations div.  The label
\* "Mise en service le" is the chunks "Mise en service ", "le".
Span(data, text) ==
    IF Contains(text, "N° série")
    THEN Put(data, "serial_number", Strip(LastPart(text, ":")))
    ELSE IF \E i \in 1..(Len(text) - 1) :
                text[i] = "Mise en service " /\ text[i + 1] = "le"
    THEN Put(data, "service_date", ConvertServiceDate(Strip(LastPart(text, "le"))))
    ELSE data

RECURSIVE Spans(_, _, _)
Spans(data, spans, i) ==
    IF i > Len(spans) THEN data ELSE Spans(Span(data, spans[i]), spans, i + 1)

\* api.py 414-445.  page: title (the h1.page-title text, None without one),
\* info (the span texts of div.informations, None without one).
ParseDevicePage(page) ==
    LET named == IF page.title = None
                 THEN EmptyDict
                 ELSE Put(EmptyDict, "device_name", Strip(page.title[1]))
    IN  IF page.info = None THEN named ELSE Spans(named, page.info[1], 1)

\* The except clauses of _fetch_html_data (api.py 447-452).
WrapHtmlError(e) ==
    CASE e.cls \in {"ConnectionError", "DataNotFoundError"} -> e
      [] e.cls = "ClientError" ->
            Raise("ConnectionError", <<"Connection error fetching HTML data: ">> \o e.msg)
      [] e.cls = "TimeoutError" ->
            Raise("ConnectionError", <<"Timeout fetching HTML data">>)
      [] OTHER -> e

\* _fetch_html_data (api.py 379-452).
FetchHtmlData(resp) ==
    LET r == IF resp.err # "none"
             THEN Raise(resp.err, TransportMsg)
             ELSE IF StatusPolicy(resp.status, "HTML data: ") # NoRet
             THEN StatusPolicy(resp.status, "HTML data: ")
             ELSE Return(ParseDevicePage(resp.body))
    IN  IF r.kind = "raise" THEN WrapHtmlError(r) ELSE r

\* get_device_data's merge (api.py 234-237): html_data.update(ajax_data).
MergeScrapes(html_data, ajax_data) == DictUpdate(html_data, ajax_data)

----------------------------------------------------------------------------
(* The client after construction (api.py 41-45). *)

ClientInit ==
    /\ is_authenticated = FALSE
    /\ username = None
    /\ password = None
    /\ receipt_line_key = None

MachineInit ==
    /\ stack = <<>>
    /\ ret = NoRet
    /\ call = "none"
    /\ log = <<>>

\* The session a client is built on: open, never closed yet
\* (__init__.py 39-50, config_flow.py 45-55).
SessionInit ==
    /\ session_closed = FALSE
    /\ session_closes = 0

\* The portal holds no expired session.
PortalInit == portal = "valid"

\* No coordinator, no loaded entry, no config entry yet.
HostInit ==
    /\ coordinator_data = None
    /\ last_update_success = TRUE
    /\ loaded = FALSE
    /\ entries = <<>>

----------------------------------------------------------------------------
(* The coroutines of the client, one step per awaited request.             *)

\* A coroutine in progress: the function, the await it stands at, the
\* arguments of authenticate, and get_device_data's ajax_data.
Frame(fn, pc, u, p) == [fn |-> fn, pc |-> pc, u |-> u, p |-> p, data |-> None]

Top == stack[Len(stack)]
Running(fn, pcs) == stack # <<>> /\ Top.fn = fn /\ Top.pc \in pcs
Pop == SubSeq(stack, 1, Len(stack) - 1)
Goto(pc) == [stack EXCEPT ![Len(stack)].pc = pc]
Await(pc, frame) == Append(Goto(pc), frame)

\* The public call has finished.
Done == stack = <<>> /\ call # "none"

\* A request as logged: the endpoint, the receiptLineKey it is addressed
\* with, the status answered (0 when the transport raised err instead), and
\* what the scrape made of the answer.
Entry(req, key, resp, data) ==
    [req |-> req, key |-> key, status |-> resp.status, err |-> resp.err, data |-> data]

\* What a step does to the client's AuthState and to the coroutines.
Eff(a, s, r) == [is_authenticated |-> a, stack |-> s, ret |-> r]

\* The credentials public callers pass to authenticate.
Usernames == {"", "alice"}
Passwords == {"", "pw", "pw2"}

\* What the portal answers.
Answer(s, b) == [err |-> "none", status |-> s, body |-> b]
Failure(e) == [err |-> e, status |-> 0, body |-> None]

ErrorStatuses == {401, 403, 404, 500}

\* What a request on the session can end in, out of the outcomes S of an
\* open session: aiohttp refuses every request on a closed session with
\* RuntimeError("Session is closed").
Requests(S) == IF session_closed THEN {r \in S : r.err = "Exception"} ELSE S

WarmupAnswers ==
    {Failure(e) : e \in TransportErrors} \cup {Answer(s, None) : s \in {200, 500}}

PollLoginResponses ==
    {LoginFailure(e) : e \in TransportErrors}
    \cup {LoginAnswer(200, <<"dashboard">>, "none", <<"bienvenue">>),
          LoginAnswer(200, <<"/login">>, "none", <<"bienvenue">>),
          LoginAnswer(200, <<"/login">>, "none", <<"Identifiants Invalides">>),
          LoginAnswer(200, <<"/login">>, "none", <<"_username", "_password">>),
          LoginAnswer(500, <<"/login">>, "none", <<>>)}

DashboardPages ==
    {<<Some(<<"/device?", "receiptLineKey=", "K1">>)>>,
     <<None, Some(<<"/help">>),
       Some(<<"/device?", "receiptLineKey=", "K2", "&", "tab=1">>),
       Some(<<"/device?", "receiptLineKey=", "K1">>)>>,
     <<Some(<<"/device?", "receiptLineKey=">>)>>,
     <<Some(<<"/help">>)>>}

DashboardAnswers ==
    {Failure(e) : e \in TransportErrors}
    \cup {Answer(s, None) : s \in ErrorStatuses}
    \cup {Answer(200, Some(page)) : page \in DashboardPages}

TodayHistory ==
    Some([isdict |-> TRUE,
          codes |-> Some(<<"date", "regenCount", "powerOutage", "waterUse", "saltAlarm">>),
          lines |-> Some(<<<<JStr(<<"2024-01-", "01">>), JInt(3), JInt(0), JInt(120), JInt(1)>>>>)])

PollBodies ==
    {[json_err |-> "none", top |-> "dict",
      dataset |-> Some([islist |-> FALSE, len |-> 0,
          elem |-> [isdict |-> TRUE,
                    obj |-> [connectable |-> Some(TRUE), connected |-> Some(TRUE),
                             online |-> Some(TRUE),
                             lastSeenDateTime |-> Some(<<"2024-01-02T10:00:00", "Z">>),
                             history |-> h]]])] :
        h \in {None, TodayHistory}}
    \cup {[json_err |-> "none", top |-> "dict", dataset |-> None],
          [json_err |-> "ValueError", top |-> "dict", dataset |-> None]}

PollDates == {<<"2024-01-", "01">>, <<"2024-01-", "02">>}

AjaxAnswers ==
    {Failure(e) : e \in TransportErrors}
    \cup {Answer(s, None) : s \in ErrorStatuses}
    \cup {Answer(200, b) : b \in PollBodies}

DevicePages ==
    {[title |-> Some(<<" ", "Mon adoucisseur", " ">>),
      info |-> Some(<< <<"N° série", " ", ":", " ", "08K8-FJKL">>,
                       <<"Mise en service ", "le", " ", "04", "-", "06", "-", "2024">> >>)],
     [title |-> None,
      info |-> Some(<< <<"Mise en service ", "le", " ", "bientôt">> >>)],
     [title |-> None, info |-> None]}

DeviceAnswers ==
    {Failure(e) : e \in TransportErrors}
    \cup {Answer(s, None) : s \in ErrorStatuses}
    \cup {Answer(200, page) : page \in DevicePages}

\* Mutant: _ensure_authenticated lets every caller go on.
EnsureAuthenticated_NoLogin(auth, resume_pc, ok_stack) == Eff(auth, ok_stack, NoRet)

\* Mutant: _ensure_authenticated logs in whatever the AuthState.
EnsureAuthenticated_Relogin(auth, resume_pc, ok_stack) ==
    IF ~Truthy(username) \/ ~Truthy(password)
    THEN Eff(auth, Pop,
             Raise("AuthenticationError", <<"No credentials stored for re-authentication">>))
    ELSE Eff(auth,
             Await(resume_pc, Frame("authenticate", "warmup", username[1], password[1])),
             NoRet)

\* _ensure_authenticated (api.py 132-143) as the caller awaits it: go on with
\* the caller (ok_stack) when authenticated, raise without credentials,
\* otherwise await authenticate and resume the caller at resume_pc.
EnsureAuthenticated(auth, resume_pc, ok_stack) ==
    IF auth
    THEN Eff(auth, ok_stack, NoRet)
    ELSE IF ~Truthy(username) \/ ~Truthy(password)
    THEN Eff(auth, Pop,
             Raise("AuthenticationError", <<"No credentials stored for re-authentication">>))
    ELSE Eff(auth,
             Await(resume_pc, Frame("authenticate", "warmup", username[1], password[1])),
             NoRet)

\* The public operations are called one at a time (spec section 5).
Call_authenticate(u, p) ==
    /\ stack = <<>>
    /\ stack' = <<Frame("authenticate", "warmup", u, p)>>
    /\ call' = "authenticate"
    /\ ret' = NoRet
    /\ log' = <<>>
    /\ UNCHANGED <<client, fin, fout, session, host, portal>>

Call_get_receipt_line_key ==
    /\ stack = <<>>
    /\ stack' = <<Frame("get_receipt_line_key", "start", "", "")>>
    /\ call' = "get_receipt_line_key"
    /\ ret' = NoRet
    /\ log' = <<>>
    /\ UNCHANGED <<client, fin, fout, session, host, portal>>

Call_get_device_data ==
    /\ stack = <<>>
    /\ stack' = <<Frame("get_device_data", "start", "", "")>>
    /\ call' = "get_device_data"
    /\ ret' = NoRet
    /\ log' = <<>>
    /\ UNCHANGED <<client, fin, fout, session, host, portal>>

\* Mutant: what the warm-up GET raises leaves authenticate.
WarmupExcept_Reraise(e) == e

\* The inner except clause of authenticate (api.py 73-74): whatever the
\* warm-up GET raised is logged and authenticate goes on.
WarmupExcept(e) == NoRet

\* The warm-up GET (api.py 68-74): what it makes authenticate raise, NoRet
\* when authenticate goes on to the POST.
Warmup(resp) ==
    IF resp.err # "none"
    THEN WarmupExcept(Raise(resp.err, TransportMsg))
    ELSE NoRet

\* authenticate, up to the warm-up GET of the login page (api.py 61-74): the
\* credentials are stored, the outcome of the GET is ignored.
authenticate_warmup ==
    /\ Running("authenticate", {"warmup"})
    /\ \E resp \in Requests(WarmupAnswers) :
          /\ log' = Append(log, Entry("GET /login", None, resp, None))
          /\ IF Warmup(resp).kind = "raise"
             THEN stack' = Pop /\ ret' = WrapAuthenticateError(Warmup(resp))
             ELSE stack' = Goto("post") /\ ret' = ret
    /\ username' = Some(Top.u)
    /\ password' = Some(Top.p)
    /\ UNCHANGED <<is_authenticated, receipt_line_key, call, fin, fout, session, host, portal>>

\* The portal after a login POST: a login it accepted opens a fresh session
\* in place of an expired one.
PortalAfterLogin(state, r) ==
    IF r.kind = "return" /\ state = "expired" THEN "renewed" ELSE state

\* authenticate, the login POST and its classification (api.py 76-130).
authenticate_post ==
    /\ Running("authenticate", {"post"})
    /\ \E resp \in Requests(PollLoginResponses) :
          LET r == AuthenticatePost(is_authenticated, resp)
          IN  /\ is_authenticated' = r.is_authenticated
              /\ ret' = r.ret
              /\ log' = Append(log, Entry("POST /login", None, resp, None))
              /\ portal' = PortalAfterLogin(portal, r.ret)
    /\ stack' = Pop
    /\ UNCHANGED <<username, password, receipt_line_key, call, fin, fout, session, host>>

\* get_receipt_line_key, the cache and _ensure_authenticated (api.py 156-161).
get_receipt_line_key_start ==
    /\ Running("get_receipt_line_key", {"start"})
    /\ LET e == IF Truthy(receipt_line_key)
                THEN Eff(is_authenticated, Pop, Return(receipt_line_key[1]))
                ELSE EnsureAuthenticated(is_authenticated, "after_ensure", Goto("dashboard"))
       IN  stack' = e.stack /\ ret' = e.ret
    /\ UNCHANGED <<client, call, log, fin, fout, session, host, portal>>

\* get_receipt_line_key resumed when the authenticate it awaited is over
\* (api.py 161 and 171): its exception propagates, otherwise the dashboard
\* is fetched.
get_receipt_line_key_resume ==
    /\ Running("get_receipt_line_key", {"after_ensure", "after_reauth"})
    /\ ret.kind # "none"
    /\ IF ret.kind = "raise"
       THEN stack' = Pop /\ ret' = ret
       ELSE /\ stack' = Goto(IF Top.pc = "after_ensure" THEN "dashboard" ELSE "retry")
            /\ ret' = NoRet
    /\ UNCHANGED <<client, call, log, fin, fout, session, host, portal>>

\* Mutant: no except clause of get_receipt_line_key wraps anything.
WrapDashboardError_Unwrapped(e) == e

\* The except clauses of get_receipt_line_key (api.py 204-209).
WrapDashboardError(e) ==
    CASE e.cls \in {"AuthenticationError", "DataNotFoundError", "ConnectionError"} -> e
      [] e.cls = "ClientError" ->
            Raise("ConnectionError", <<"Connection error fetching dashboard: ">> \o e.msg)
      [] e.cls = "TimeoutError" ->
            Raise("ConnectionError", <<"Timeout fetching dashboard">>)
      [] OTHER -> e

\* Mutant: a 401/403 on the first GET fails like any other status.
FirstDashboard_NoReauth(resp) ==
    IF resp.err # "none"
    THEN WrapDashboardError(Raise(resp.err, TransportMsg))
    ELSE IF resp.status = 500
    THEN Raise("ConnectionError", <<"Server overload (500)">>)
    ELSE IF resp.status # 200
    THEN Raise("ConnectionError", <<"Failed to fetch dashboard: ", StatusStr(resp.status)>>)
    ELSE WrapDashboardError(ParseDashboard(resp.body[1]))

\* api.py 166-202 for the first GET: "reauth" stands for the 401/403 branch.
FirstDashboard(resp) ==
    IF resp.err # "none"
    THEN WrapDashboardError(Raise(resp.err, TransportMsg))
    ELSE IF resp.status \in {401, 403}
    THEN [kind |-> "reauth", cls |-> "", msg |-> <<>>, val |-> None]
    ELSE IF resp.status = 500
    THEN Raise("ConnectionError", <<"Server overload (500)">>)
    ELSE IF resp.status # 200
    THEN Raise("ConnectionError", <<"Failed to fetch dashboard: ", StatusStr(resp.status)>>)
    ELSE WrapDashboardError(ParseDashboard(resp.body[1]))

\* api.py 173-202 for the GET after re-authentication.
RetryDashboard(resp) ==
    IF resp.err # "none"
    THEN WrapDashboardError(Raise(resp.err, TransportMsg))
    ELSE IF resp.status # 200
    THEN Raise("ConnectionError",
               <<"Failed to fetch dashboard after re-auth: ", StatusStr(resp.status)>>)
    ELSE WrapDashboardError(ParseDashboard(resp.body[1]))

\* get_receipt_line_key, the dashboard GET (api.py 163-209).
get_receipt_line_key_dashboard ==
    /\ Running("get_receipt_line_key", {"dashboard"})
    /\ \E resp \in Requests(DashboardAnswers) :
          LET r == FirstDashboard(resp)
              e == IF r.kind = "reauth"
                   THEN EnsureAuthenticated(FALSE, "after_reauth", Goto("retry"))
                   ELSE Eff(is_authenticated, Pop, r)
          IN  /\ is_authenticated' = e.is_authenticated
              /\ stack' = e.stack
              /\ ret' = e.ret
              /\ receipt_line_key' =
                    IF r.kind = "return" THEN r.val ELSE receipt_line_key
              /\ log' = Append(log, Entry("GET /dashboard", None, resp, None))
    /\ UNCHANGED <<username, password, call, fin, fout, session, host, portal>>

\* get_receipt_line_key, the dashboard GET after re-authentication
\* (api.py 173-176, 185-209).
get_receipt_line_key_retry ==
    /\ Running("get_receipt_line_key", {"retry"})
    /\ \E resp \in Requests(DashboardAnswers) :
          LET r == RetryDashboard(resp)
          IN  /\ ret' = r
              /\ receipt_line_key' =
                    IF r.kind = "return" THEN r.val ELSE receipt_line_key
              /\ log' = Append(log, Entry("GET /dashboard", None, resp, None))
    /\ stack' = Pop
    /\ UNCHANGED <<is_authenticated, username, password, call, fin, fout, session, host, portal>>

\* get_device_data after _ensure_authenticated (api.py 223-225): the key is
\* resolved first when there is none.
EnsureKey ==
    IF ~Truthy(receipt_line_key)
    THEN Await("after_key", Frame("get_receipt_line_key", "start", "", ""))
    ELSE Goto("ajax")

\* get_device_data, _ensure_authenticated and the key (api.py 221-225).
get_device_data_start ==
    /\ Running("get_device_data", {"start"})
    /\ LET e == EnsureAuthenticated(is_authenticated, "after_ensure", EnsureKey)
       IN  stack' = e.stack /\ ret' = e.ret
    /\ UNCHANGED <<client, call, log, fin, fout, session, host, portal>>

\* get_device_data resumed when the coroutine it awaited is over (api.py
\* 221, 225, 244): an exception propagates; otherwise the key is looked at,
\* the JSON scrape starts, or it is repeated after re-authentication.
get_device_data_resume ==
    /\ Running("get_device_data", {"after_ensure", "after_key", "after_reauth"})
    /\ ret.kind # "none"
    /\ IF ret.kind = "raise"
       THEN stack' = Pop /\ ret' = ret
       ELSE /\ stack' = CASE Top.pc = "after_ensure" -> EnsureKey
                          [] Top.pc = "after_key" -> Goto("ajax")
                          [] Top.pc = "after_reauth" -> Goto("ajax_retry")
            /\ ret' = NoRet
    /\ UNCHANGED <<client, call, log, fin, fout, session, host, portal>>

\* Mutant: whatever a scrape raises, get_device_data scrapes again.
DeviceDataExcept_ScrapeAgain(e) == Eff(is_authenticated, Goto("ajax"), NoRet)

\* The except clause of get_device_data (api.py 239-249) for an exception e
\* raised by one of the two scrapes.
DeviceDataExcept(e) ==
    IF e.cls # "ClientError"
    THEN Eff(is_authenticated, Pop, e)
    ELSE IF Contains(e.msg, "401") \/ Contains(e.msg, "403")
    THEN EnsureAuthenticated(FALSE, "after_reauth", Goto("ajax_retry"))
    ELSE Eff(is_authenticated, Pop,
             Raise("ConnectionError", <<"Error fetching device data: ">> \o e.msg))

\* get_device_data awaiting _fetch_ajax_data (api.py 229 and, after
\* re-authentication, 247, where the scrape's result is the call's result).
get_device_data_ajax ==
    /\ Running("get_device_data", {"ajax", "ajax_retry"})
    /\ \E resp \in Requests(AjaxAnswers), today_str \in PollDates :
          LET r == FetchAjaxData(resp, today_str)
              e == IF Top.pc = "ajax_retry"
                   THEN Eff(is_authenticated, Pop, r)
                   ELSE IF r.kind = "return"
                   THEN Eff(is_authenticated,
                            [stack EXCEPT ![Len(stack)].pc = "html",
                                          ![Len(stack)].data = r.val],
                            NoRet)
                   ELSE DeviceDataExcept(r)
          IN  /\ is_authenticated' = e.is_authenticated
              /\ stack' = e.stack
              /\ ret' = e.ret
              /\ log' = Append(log, Entry("POST /device/ajaxChart", receipt_line_key, resp,
                                          IF r.kind = "return" THEN r.val ELSE None))
    /\ UNCHANGED <<username, password, receipt_line_key, call, fin, fout, session, host, portal>>

\* get_device_data awaiting _fetch_html_data, and the merge (api.py 232-249).
get_device_data_html ==
    /\ Running("get_device_data", {"html"})
    /\ \E resp \in Requests(DeviceAnswers) :
          LET r == FetchHtmlData(resp)
              e == IF r.kind = "return"
                   THEN Eff(is_authenticated, Pop,
                            Return(MergeScrapes(r.val[1], Top.data[1])))
                   ELSE DeviceDataExcept(r)
          IN  /\ is_authenticated' = e.is_authenticated
              /\ stack' = e.stack
              /\ ret' = e.ret
              /\ log' = Append(log, Entry("GET /device", receipt_line_key, resp,
                                          IF r.kind = "return" THEN r.val ELSE None))
    /\ UNCHANGED <<username, password, receipt_line_key, call, fin, fout, session, host, portal>>

\* Mutant: the session's close() runs whether the session is open or not.
CloseSession_Always(closed, closes) == [closed |-> TRUE, closes |-> closes + 1]

\* The session after BWTApiClient.close (api.py 461-465): close() runs on an
\* open session only.
CloseSession(closed, closes) ==
    IF ~closed
    THEN [closed |-> TRUE, closes |-> closes + 1]
    ELSE [closed |-> closed, closes |-> closes]

\* close (api.py 454-465), a public operation like the others; the log tells
\* whether it closed the session.
close ==
    /\ stack = <<>>
    /\ LET c == CloseSession(session_closed, session_closes)
       IN  /\ session_closed' = c.closed
           /\ session_closes' = c.closes
           /\ log' = IF c.closes # session_closes
                     THEN <<Entry("session.close", None, Answer(0, None), None)>>
                     ELSE <<>>
    /\ call' = "close"
    /\ ret' = Return(None)
    /\ UNCHANGED <<client, stack, fin, fout, host, portal>>

Init ==
    /\ ClientInit /\ MachineInit /\ SessionInit /\ HostInit /\ PortalInit
    /\ fin = None
    /\ fout = None

Next ==
    \/ \E u \in Usernames, p \in Passwords : Call_authenticate(u, p)
    \/ close
    \/ Call_get_receipt_line_key
    \/ Call_get_device_data
    \/ authenticate_warmup
    \/ authenticate_post
    \/ get_receipt_line_key_start
    \/ get_receipt_line_key_resume
    \/ get_receipt_line_key_dashboard
    \/ get_receipt_line_key_retry
    \/ get_device_data_start
    \/ get_device_data_resume
    \/ get_device_data_ajax
    \/ get_device_data_html

Spec == Init /\ [][Next]_vars

----------------------------------------------------------------------------
(* Claims about the client's coroutines, checked under Spec.               *)

Last(s) == s[Len(s)]

Sent(req) == {i \in 1..Len(log) : log[i].req = req}

\* The JSON POSTs of the call that were answered 401 or 403.
ExpiredAjax == {i \in Sent("POST /device/ajaxChart") : log[i].status \in {401, 403}}

\* C1 as stated: when the JSON endpoint answers 401 or 403 during
\* get_device_data, the call re-authenticates exactly once and repeats the
\* JSON fetch at most once, and a second 401 ends the call with an error.
C1_ReauthAndRetryOnce ==
    (Done /\ call = "get_device_data" /\ ExpiredAjax # {})
    => LET first == CHOOSE i \in ExpiredAjax : \A j \in ExpiredAjax : i <= j
       IN  /\ Cardinality({j \in Sent("POST /login") : j > first}) = 1
           /\ Cardinality(Sent("POST /device/ajaxChart")) <= 2
           /\ Cardinality(ExpiredAjax) = 2 => ret.kind = "raise"

\* C2 as stated: AuthState is true once a login has succeeded, and false
\* once a dashboard GET, a JSON POST or an HTML GET has been answered 401 or
\* 403, until the next login.
C2_AuthStateFollowsAnswers ==
    log # <<>> =>
        /\ (Last(log).req = "POST /login" /\ ret = Return(TRUE)) => is_authenticated
        /\ (/\ Last(log).req \in {"GET /dashboard", "POST /device/ajaxChart", "GET /device"}
            /\ Last(log).status \in {401, 403})
           => ~is_authenticated

\* C3: a record returned by get_device_data is the merge of a JSON scrape
\* and of an HTML scrape that both succeeded in that call, the HTML GET
\* being the call's last request: it holds every key of both and nothing
\* else.
C3_RecordIsMergeOfBothScrapes ==
    (Done /\ call = "get_device_data" /\ ret.kind = "return")
    => \E i, j \in 1..Len(log) :
          /\ i < j /\ j = Len(log)
          /\ log[i].req = "POST /device/ajaxChart" /\ log[i].data # None
          /\ log[j].req = "GET /device" /\ log[j].data # None
          /\ DOMAIN ret.val[1] = (DOMAIN log[i].data[1]) \cup (DOMAIN log[j].data[1])
          /\ \A k \in DOMAIN log[i].data[1] : ret.val[1][k] = log[i].data[1][k]
          /\ \A k \in DOMAIN log[j].data[1] : ret.val[1][k] = log[j].data[1][k]

\* A poll that had to log in and to resolve the key returned a record with
\* the JSON scrape's counters and the HTML scrape's serial number.
C3_Witness ==
    /\ Done /\ call = "get_device_data" /\ ret.kind = "return"
    /\ Sent("POST /login") # {}
    /\ Sent("GET /dashboard") # {}
    /\ "regen_count" \in DOMAIN ret.val[1]
    /\ "serial_number" \in DOMAIN ret.val[1]

\* C6 as stated: once get_receipt_line_key has returned a key (the key is
\* cached, the empty string included), a later call returns that key at
\* once, without any request.
C6_CachedKeyReused ==
    [][(Running("get_receipt_line_key", {"start"}) /\ receipt_line_key # None)
       => (/\ stack' = Pop
           /\ ret' = Return(receipt_line_key[1])
           /\ log' = log
           /\ receipt_line_key' = receipt_line_key)]_vars

\* A step of close.
CloseStep == stack = <<>> /\ stack' = <<>> /\ call' = "close"

\* C11: close is idempotent: however many times it is called, it never
\* raises, the session's close() runs at most once, and a close on a session
\* that is already closed changes nothing of the client and of its session.
C11_CloseIdempotent ==
    /\ [](session_closes <= 1)
    /\ []((stack = <<>> /\ call = "close") => ret.kind = "return")
    /\ [][(CloseStep /\ session_closed) => UNCHANGED <<client, session, host>>]_vars

\* close has been called on a session an earlier close had closed, on a
\* client that had logged in.
C11_Witness ==
    /\ stack = <<>> /\ call = "close" /\ log = <<>>
    /\ session_closed /\ session_closes = 1
    /\ is_authenticated

\* The three operations that talk to the portal.
PortalOps == {"authenticate", "get_receipt_line_key", "get_device_data"}

\* The requests of the call, the warm-up GET apart, at which the transport
\* raised a client error or a timeout.
TransportFailed ==
    {i \in 1..Len(log) : log[i].req # "GET /login"
                         /\ log[i].err \in {"ClientError", "TimeoutError"}}

\* C13: when the transport raises a client error or a timeout at a request
\* of authenticate, get_receipt_line_key or get_device_data (the warm-up GET
\* apart), that request is the call's last and the call raises the module's
\* ConnectionError; no call ends with a raw ClientError or TimeoutError.
C13_TransportErrorsWrapped ==
    (Done /\ call \in PortalOps)
    => /\ ~(ret.kind = "raise" /\ ret.cls \in {"ClientError", "TimeoutError"})
       /\ \A i \in TransportFailed :
             i = Len(log) /\ ret.kind = "raise" /\ ret.cls = "ConnectionError"

\* A get_receipt_line_key has ended whose dashboard GET timed out after a
\* re-authentication.
C13_Witness ==
    /\ Done /\ call = "get_receipt_line_key"
    /\ TransportFailed # {}
    /\ Last(log).err = "TimeoutError"
    /\ Sent("POST /login") # {}
    /\ ret.cls = "ConnectionError"

\* The first dashboard GET of the call, and what the call sent after it.
FirstGet == CHOOSE i \in Sent("GET /dashboard") : \A j \in Sent("GET /dashboard") : i <= j
Reauths == {j \in Sent("POST /login") : j > FirstGet}
Retries == {j \in Sent("GET /dashboard") : j > FirstGet}

RaisedConnectionError == ret.kind = "raise" /\ ret.cls = "ConnectionError"

\* A get_receipt_line_key that found no cached key and fetched the dashboard
\* has ended.
UncachedKeyCall ==
    Done /\ call = "get_receipt_line_key" /\ Sent("GET /dashboard") # {}

\* What the claim and its amendment say alike of the first GET's other
\* statuses and of the retry: a status other than 200, 401 and 403 on the
\* first GET raises ConnectionError with no re-authentication and no retry;
\* a retry is the call's last request and any non-200 on it raises
\* ConnectionError; at most two dashboard GETs are issued.
NoRetryBeyond ==
    /\ Cardinality(Sent("GET /dashboard")) <= 2
    /\ (log[FirstGet].err = "none" /\ log[FirstGet].status \notin {200, 401, 403})
       => (RaisedConnectionError /\ Reauths = {} /\ Retries = {})
    /\ \A j \in Retries :
          /\ j = Len(log)
          /\ (log[j].err = "none" /\ log[j].status # 200) => RaisedConnectionError

\* C14 as stated: a 401/403 on the first dashboard GET forces exactly one
\* re-authentication followed by exactly one retry GET (and the rest as in
\* NoRetryBeyond).
C14_Original ==
    UncachedKeyCall
    => /\ NoRetryBeyond
       /\ log[FirstGet].status \in {401, 403}
          => (Cardinality(Reauths) = 1 /\ Cardinality(Retries) = 1)

\* C14 amended: a 401/403 on the first dashboard GET resets AuthState and
\* forces one re-authentication, provided credentials are stored; exactly
\* one retry GET follows a re-authentication that succeeded, and none
\* follows otherwise: the call then fails with the error of the
\* re-authentication (AuthenticationError when no credentials are stored).
C14_ReauthThenRetry ==
    UncachedKeyCall
    => /\ NoRetryBeyond
       /\ log[FirstGet].status \in {401, 403}
          => /\ Cardinality(Reauths) = IF Truthy(username) /\ Truthy(password) THEN 1 ELSE 0
             /\ Cardinality(Retries) = IF is_authenticated THEN 1 ELSE 0
             /\ is_authenticated => Reauths # {}
             /\ \A j \in Retries : \A l \in Reauths : l < j
             /\ ~is_authenticated
                => /\ ret.kind = "raise"
                   /\ ret.cls \in {"AuthenticationError", "ConnectionError"}
                   /\ Reauths = {} => ret.cls = "AuthenticationError"

\* A call has ended whose first GET was answered 401 and whose retry, after
\* a re-authentication, was answered 403.
C14_Witness ==
    /\ UncachedKeyCall
    /\ log[FirstGet].status = 401
    /\ Cardinality(Reauths) = 1
    /\ Retries # {}
    /\ Last(log).req = "GET /dashboard" /\ Last(log).status = 403
    /\ RaisedConnectionError

\* A step of get_device_data at which the JSON POST or the HTML GET is
\* answered with a status that is neither 200 nor 401/403.
ScrapeRefused ==
    /\ Running("get_device_data", {"ajax", "html"})
    /\ Len(log') = Len(log) + 1
    /\ Last(log').req \in {"POST /device/ajaxChart", "GET /device"}
    /\ Last(log').err = "none"
    /\ Last(log').status \notin {200, 401, 403}

\* C15: when the JSON POST or the HTML GET answers 500 or another status
\* that is neither 200 nor 401/403, get_device_data ends there with
\* ConnectionError (no re-authentication, no request repeated), and
\* AuthState, the credentials and the cached key are as before.
C15_RefusedScrapeFailsAtOnce ==
    [][ScrapeRefused
       => /\ stack' = Pop
          /\ ret'.kind = "raise" /\ ret'.cls = "ConnectionError"
          /\ UNCHANGED client]_vars

\* A poll of an authenticated client with its key ended with ConnectionError
\* at the HTML GET, answered 500 after a JSON POST that succeeded.
C15_Witness ==
    /\ Done /\ call = "get_device_data"
    /\ Sent("GET /device") # {}
    /\ Last(log).req = "GET /device" /\ Last(log).status = 500
    /\ Cardinality(Sent("POST /device/ajaxChart")) = 1
    /\ RaisedConnectionError
    /\ is_authenticated /\ Truthy(receipt_line_key)

\* The step that ends a call of authenticate.
AuthenticateEnds == Running("authenticate", {"post"})

\* C24 as stated: after any call authenticate(u, p) the stored credentials
\* are (u, p), AuthState is true when the call returned and false when it
\* raised, also when the client was authenticated before the call.
C24_AuthStateFollowsAuthenticate ==
    [][AuthenticateEnds
       => /\ username' = Some(Top.u) /\ password' = Some(Top.p)
          /\ ret'.kind = "return" => is_authenticated'
          /\ ret'.kind = "raise" => ~is_authenticated']_vars

\* The requests of the two scrapers.
ScrapeRequests == {"POST /device/ajaxChart", "GET /device"}

\* C26 as stated: once the key is set on a client it never changes, and
\* every JSON POST and HTML GET is addressed with it.
C26_KeyNeverChanges ==
    /\ [][receipt_line_key # None => receipt_line_key' = receipt_line_key]_vars
    /\ [](\A i \in 1..Len(log) :
            log[i].req \in ScrapeRequests => log[i].key = receipt_line_key)

\* The client is about to send the dashboard GET, or a scrape's request.
AtDashboardGet == Running("get_receipt_line_key", {"dashboard", "retry"})
AtScrape == Running("get_device_data", {"ajax", "ajax_retry", "html"})

\* C27: the dashboard GET is sent only by a client whose AuthState is true,
\* and AuthState becomes true only when a login returns success; the JSON
\* POST and the HTML GET are sent only once a key has been resolved, and
\* carry it; within one call of get_device_data the HTML GET directly
\* follows a JSON POST answered 200 from which a record was read, so a JSON
\* failure means no HTML request in that call.
C27_RequestOrder ==
    /\ [](AtDashboardGet => is_authenticated)
    /\ [][(~is_authenticated /\ is_authenticated')
          => (Running("authenticate", {"post"}) /\ ret' = Return(TRUE))]_vars
    /\ [](AtScrape => receipt_line_key # None)
    /\ [](\A i \in 1..Len(log) :
            /\ log[i].req \in ScrapeRequests => log[i].key # None
            /\ log[i].req = "GET /device"
               => /\ i > 1
                  /\ log[i - 1].req = "POST /device/ajaxChart"
                  /\ log[i - 1].status = 200
                  /\ log[i - 1].data # None)

\* One call of get_device_data on an authenticated client without a key has
\* sent the dashboard GET, the JSON POST and the HTML GET, in this order, and
\* returned a record.
C27_Witness ==
    /\ stack = <<>> /\ call = "get_device_data" /\ ret.kind = "return"
    /\ Len(log) = 3
    /\ log[1].req = "GET /dashboard"
    /\ log[2].req = "POST /device/ajaxChart"
    /\ log[3].req = "GET /device"

\* C28: the outcome of authenticate depends on the login POST only.  Every
\* outcome of the warm-up GET leaves the client and the coroutine in the
\* same state, about to send the POST; a finished call has sent the GET and
\* then the POST; the returned value, the raised error and the AuthState are
\* the classification of the POST's answer.
C28_WarmupIgnored ==
    /\ [][Running("authenticate", {"warmup"})
          => /\ stack' = Goto("post")
             /\ username' = Some(Top.u) /\ password' = Some(Top.p)
             /\ UNCHANGED <<is_authenticated, receipt_line_key, ret, session>>]_vars
    /\ []((stack = <<>> /\ call = "authenticate")
          => /\ Len(log) = 2
             /\ log[1].req = "GET /login" /\ log[2].req = "POST /login")
    /\ [][Running("authenticate", {"post"})
          => \E resp \in PollLoginResponses :
                /\ Last(log').req = "POST /login"
                /\ Last(log').status = resp.status /\ Last(log').err = resp.err
                /\ ret' = AuthenticatePost(is_authenticated, resp).ret
                /\ is_authenticated' = AuthenticatePost(is_authenticated, resp).is_authenticated]_vars

\* The warm-up GET failed in the transport and the login succeeded.
C28_Witness ==
    /\ stack = <<>> /\ call = "authenticate"
    /\ Len(log) = 2
    /\ log[1].req = "GET /login" /\ log[1].err = "TimeoutError"
    /\ log[2].req = "POST /login" /\ log[2].status = 200
    /\ ret = Return(TRUE) /\ is_authenticated

\* The step in which a public operation awaits _ensure_authenticated.
EnsureStep ==
    \/ Running("get_receipt_line_key", {"start"}) /\ ~Truthy(receipt_line_key)
    \/ Running("get_device_data", {"start"})

\* The step in which get_receipt_line_key, its first dashboard GET answered
\* 401 or 403, has reset the AuthState and awaits _ensure_authenticated.
ReauthStep ==
    /\ Running("get_receipt_line_key", {"dashboard"})
    /\ Len(log') = Len(log) + 1
    /\ Last(log').status \in {401, 403}

\* The step has started authenticate with the stored credentials.
LoginStarted ==
    /\ Len(stack') = Len(stack) + 1
    /\ Top'.fn = "authenticate" /\ Top'.pc = "warmup"
    /\ Some(Top'.u) = username /\ Some(Top'.p) = password

\* The step has raised for want of credentials.
NoCredentialsRaised ==
    /\ stack' = Pop
    /\ ret' = Raise("AuthenticationError", <<"No credentials stored for re-authentication">>)

\* _ensure_authenticated when the credentials count as stored exactly when
\* Stored holds: it sends no request itself and changes no state of the
\* client; with AuthState true the caller just goes on; it starts a login
\* exactly when AuthState is false and the credentials are stored, and
\* raises AuthenticationError when AuthState is false and they are not.
EnsureContract(Stored) ==
    /\ EnsureStep
       => /\ log' = log /\ UNCHANGED <<client, session>>
          /\ is_authenticated
             => /\ ret' = NoRet
                /\ stack' # <<>> /\ Top'.fn # "authenticate"
          /\ (~is_authenticated /\ Stored) => LoginStarted
          /\ (~is_authenticated /\ ~Stored) => NoCredentialsRaised
    /\ ReauthStep
       => /\ ~is_authenticated'
          /\ UNCHANGED <<username, password, receipt_line_key, session>>
          /\ Stored => LoginStarted
          /\ ~Stored => NoCredentialsRaised

\* C29 as stated: the credentials are stored once authenticate was called.
C29_Original == [][EnsureContract(username # None /\ password # None)]_vars

\* C29 (as amended): _ensure_authenticated issues a login exactly when
\* AuthState is false and both stored credentials are non-empty; when
\* AuthState is true it sends nothing and changes nothing, however often it
\* is called; when AuthState is false and a credential is missing or empty
\* it raises AuthenticationError without sending anything.
C29_LoginIffUnauthenticated ==
    [][EnsureContract(Truthy(username) /\ Truthy(password))]_vars

\* get_device_data on a client whose login failed: _ensure_authenticated
\* has started authenticate with the stored credentials, nothing sent yet.
C29_Witness ==
    /\ Len(stack) = 2
    /\ stack[1].fn = "get_device_data" /\ stack[1].pc = "after_ensure"
    /\ stack[2].fn = "authenticate" /\ stack[2].pc = "warmup"
    /\ Some(stack[2].u) = username /\ Some(stack[2].p) = password
    /\ ~is_authenticated
    /\ log = <<>>

\* Where the running coroutine stands: every step of a call changes it.
position == <<call, Len(stack), IF stack = <<>> THEN "" ELSE Top.pc, Len(log)>>

\* The operations issued on a client in use.  The host calls close when it
\* gives the client up (__init__.py 63-68 and 101-118) and calls nothing on
\* it afterwards, so the calls whose end is at stake run on an open session.
NextFair ==
    \/ \E u \in Usernames, p \in Passwords : Call_authenticate(u, p)
    \/ Call_get_receipt_line_key
    \/ Call_get_device_data
    \/ authenticate_warmup
    \/ authenticate_post
    \/ get_receipt_line_key_start
    \/ get_receipt_line_key_resume
    \/ get_receipt_line_key_dashboard
    \/ get_receipt_line_key_retry
    \/ get_device_data_start
    \/ get_device_data_resume
    \/ get_device_data_ajax
    \/ get_device_data_html

\* A step of a coroutine that is under way.
Resume == stack # <<>> /\ NextFair

\* The event loop resumes every coroutine that can go on: an awaited request
\* is answered or fails within REQUEST_TIMEOUT (__init__.py 39-41), so no coroutine
\* waits for ever.
SpecFair == Init /\ [][NextFair]_vars /\ WF_position(Resume)

\* A call of get_device_data is under way.
InDeviceData == call = "get_device_data" /\ stack # <<>>

\* C32: every call of get_device_data ends, with a record or an error,
\* whatever the portal answers, and has sent at most 2 dashboard GETs, 2 JSON
\* POSTs, 1 HTML GET and 3 login POSTs.
C32_BoundedRequests ==
    /\ [](call = "get_device_data"
          => /\ Cardinality(Sent("GET /dashboard")) <= 2
             /\ Cardinality(Sent("POST /device/ajaxChart")) <= 2
             /\ Cardinality(Sent("GET /device")) <= 1
             /\ Cardinality(Sent("POST /login")) <= 3)
    /\ InDeviceData ~> (call = "get_device_data" /\ stack = <<>> /\ ret.kind # "none")

\* One call of get_device_data that logged in, met a 401 on the dashboard,
\* logged in again, fetched the dashboard a second time and returned the
\* record of both scrapes.
C32_Witness ==
    /\ stack = <<>> /\ call = "get_device_data" /\ ret.kind = "return"
    /\ Cardinality(Sent("POST /login")) = 2
    /\ Cardinality(Sent("GET /dashboard")) = 2
    /\ Cardinality(Sent("POST /device/ajaxChart")) = 1
    /\ Cardinality(Sent("GET /device")) = 1

----------------------------------------------------------------------------
(* SpecLogin: authenticate's classification over every login response. *)

InitLogin ==
    /\ ClientInit /\ MachineInit /\ SessionInit /\ HostInit /\ PortalInit
    /\ fin \in [auth : BOOLEAN, resp : LoginResponses]
    /\ fout = None

ApplyLogin ==
    /\ fout = None
    /\ fout' = Some(AuthenticatePost(fin.auth, fin.resp))
    /\ UNCHANGED <<client, machine, fin, session, host, portal>>

NextLogin == ApplyLogin

SpecLogin == InitLogin /\ [][NextLogin]_vars

\* C4 (as amended): for every login POST response with status 200 whose body
\* is read without error and whose final URL contains "dashboard",
\* authenticate returns True and sets AuthState true, whatever the body.
C4_DashboardUrlSucceeds ==
    (/\ fout # None
     /\ fin.resp.err = "none" /\ fin.resp.status = 200 /\ fin.resp.text_err = "none"
     /\ Contains(fin.resp.url, "dashboard"))
    => (fout[1].ret = Return(TRUE) /\ fout[1].is_authenticated = TRUE)

\* C4 as stated: every login POST response whose final URL contains
\* "dashboard" yields success and AuthState true.
C4_Original ==
    (/\ fout # None
     /\ fin.resp.err = "none" /\ fin.resp.text_err = "none"
     /\ Contains(fin.resp.url, "dashboard"))
    => (fout[1].ret = Return(TRUE) /\ fout[1].is_authenticated = TRUE)

\* A 200 answer at a dashboard URL whose body carries the invalid-credentials
\* phrase and the login form, classified by a client not yet authenticated.
C4_Witness ==
    /\ fout # None
    /\ fin.auth = FALSE
    /\ fin.resp.err = "none" /\ fin.resp.status = 200 /\ fin.resp.text_err = "none"
    /\ Contains(fin.resp.url, "dashboard")
    /\ Contains(fin.resp.text, "invalid credentials")
    /\ Contains(fin.resp.text, "_username")
    /\ fout[1].ret = Return(TRUE)

\* C5 (as amended): for every login POST response whose final URL does not
\* contain "dashboard" and whose body contains, case-insensitively, one of
\* the two invalid-credentials phrases, authenticate raises
\* AuthenticationError.
HasInvalidCredentialsPhrase(text) ==
    \E i \in 1..Len(text) :
        text[i] \in {"identifiants invalides", "Identifiants Invalides",
                     "invalid credentials", "Invalid Credentials"}

C5_InvalidPhraseFails ==
    (/\ fout # None
     /\ fin.resp.err = "none" /\ fin.resp.text_err = "none"
     /\ ~Contains(fin.resp.url, "dashboard")
     /\ HasInvalidCredentialsPhrase(fin.resp.text))
    => (fout[1].ret.kind = "raise" /\ fout[1].ret.cls = "AuthenticationError")

\* C5 as stated: every response whose body contains the phrase fails with
\* AuthenticationError.
C5_Original ==
    (/\ fout # None
     /\ fin.resp.err = "none" /\ fin.resp.text_err = "none"
     /\ HasInvalidCredentialsPhrase(fin.resp.text))
    => (fout[1].ret.kind = "raise" /\ fout[1].ret.cls = "AuthenticationError")

\* A 200 answer at the login URL with the phrase in capitals, refused.
C5_Witness ==
    /\ fout # None
    /\ fin.resp.err = "none" /\ fin.resp.status = 200 /\ fin.resp.text_err = "none"
    /\ ~Contains(fin.resp.url, "dashboard")
    /\ Contains(fin.resp.text, "Identifiants Invalides")
    /\ ~Contains(fin.resp.text, "_username") /\ ~Contains(fin.resp.text, "_password")
    /\ fout[1].ret.cls = "AuthenticationError"

\* A 200 login answer whose body was read.
LoginPage ==
    /\ fout # None
    /\ fin.resp.err = "none" /\ fin.resp.status = 200 /\ fin.resp.text_err = "none"

\* The body shows the login form.
HasLoginForm(text) == \E i \in 1..Len(text) : text[i] \in {"_username", "_password"}

\* C23: for a 200 login answer whose final URL lacks "dashboard" and whose
\* body lacks both invalid-credentials phrases, authenticate raises
\* AuthenticationError when the body contains "_username" or "_password" and
\* otherwise returns True and sets AuthState true.  The checks come in the
\* order URL, phrase, form, fallback: a dashboard URL succeeds whatever the
\* body, and a body with the phrase and the form is refused for the phrase.
C23_FormThenFallback ==
    LoginPage =>
        IF Contains(fin.resp.url, "dashboard")
        THEN fout[1].ret = Return(TRUE) /\ fout[1].is_authenticated
        ELSE IF HasInvalidCredentialsPhrase(fin.resp.text)
        THEN fout[1].ret = Raise("AuthenticationError", <<"Invalid credentials">>)
        ELSE IF HasLoginForm(fin.resp.text)
        THEN fout[1].ret = Raise("AuthenticationError",
                                 <<"Authentication failed - login form still present">>)
        ELSE fout[1].ret = Return(TRUE) /\ fout[1].is_authenticated

\* A 200 answer at the login URL, without the phrase and without the form in
\* lower case, taken for a success by a client not yet authenticated.
C23_Witness ==
    /\ LoginPage
    /\ fin.auth = FALSE
    /\ ~Contains(fin.resp.url, "dashboard")
    /\ ~HasInvalidCredentialsPhrase(fin.resp.text)
    /\ Contains(fin.resp.text, "_USERNAME")
    /\ ~HasLoginForm(fin.resp.text)
    /\ fout[1].ret = Return(TRUE) /\ fout[1].is_authenticated

\* C25 as stated: authenticate raises AuthenticationError only for a login
\* answer that shows bad credentials or the login form, and a login answer
\* with a status other than 200 fails with ConnectionError.
C25_UnexpectedStatusIsConnectionError ==
    (fout # None /\ fin.resp.err = "none")
    => /\ (fout[1].ret.kind = "raise" /\ fout[1].ret.cls = "AuthenticationError")
          => (/\ fin.resp.status = 200
              /\ \/ HasInvalidCredentialsPhrase(fin.resp.text)
                 \/ HasLoginForm(fin.resp.text))
       /\ fin.resp.status # 200
          => (fout[1].ret.kind = "raise" /\ fout[1].ret.cls = "ConnectionError")

----------------------------------------------------------------------------
(* SpecMerge: get_device_data's merge over every pair of scrape records.   *)

MergeKeys == {"serial_number", "device_name", "online"}

PartialFns(K, V) == UNION {[D -> V] : D \in SUBSET K}

InitMerge ==
    /\ ClientInit /\ MachineInit /\ SessionInit /\ HostInit /\ PortalInit
    /\ fin \in [html_data : PartialFns(MergeKeys, {"h1", "h2"}),
                ajax_data : PartialFns(MergeKeys, {"j1", "h1"})]
    /\ fout = None

ApplyMerge ==
    /\ fout = None
    /\ fout' = Some(MergeScrapes(fin.html_data, fin.ajax_data))
    /\ UNCHANGED <<client, machine, fin, session, host, portal>>

NextMerge == ApplyMerge

SpecMerge == InitMerge /\ [][NextMerge]_vars

\* C7: in the merged record every key produced by both scrapes carries the
\* JSON-sourced value, every key produced by one scrape carries that
\* scrape's value, and there is no other key.
C7_JsonWinsOnCollision ==
    fout # None =>
        /\ DOMAIN fout[1] = (DOMAIN fin.html_data) \cup (DOMAIN fin.ajax_data)
        /\ \A k \in DOMAIN fin.ajax_data : fout[1][k] = fin.ajax_data[k]
        /\ \A k \in (DOMAIN fin.html_data) \ (DOMAIN fin.ajax_data) :
               fout[1][k] = fin.html_data[k]

\* Both scrapes produced serial_number with different values, the HTML
\* scrape alone device_name, the JSON scrape alone online.
C7_Witness ==
    /\ fout # None
    /\ DOMAIN fin.html_data = {"serial_number", "device_name"}
    /\ DOMAIN fin.ajax_data = {"serial_number", "online"}
    /\ fin.html_data["serial_number"] # fin.ajax_data["serial_number"]
    /\ fout[1]["serial_number"] = fin.ajax_data["serial_number"]
    /\ fout[1]["device_name"] = fin.html_data["device_name"]

----------------------------------------------------------------------------
(* SpecAjax: the JSON scrape over every body and date.                     *)

MaxLines == 2

D1 == <<"2024-01-", "01">>
D2 == <<"2024-01-", "02">>
Dates == {D1, D2}

FirstCols == {JStr(D1), JStr(D1 \o <<"T00:00:00">>), JStr(D2),
              JStr(<<"2024-01-">>), JInt(2024)}

HistoryRows ==
    {<<>>, <<JStr(D1), JInt(3), JInt(0), JInt(120), JInt(1)>>}
    \cup {<<f>> : f \in FirstCols}
    \cup {<<f, JInt(3)>> : f \in FirstCols}
    \cup {<<f, JInt(1), JInt(120)>> : f \in FirstCols}

CodeLists ==
    {<<>>,
     <<"date">>,
     <<"date", "regenCount", "powerOutage", "waterUse", "saltAlarm">>,
     <<"date", "waterUse", "regenCount">>,
     <<"regenCount", "date">>,
     <<"date", "wifiSignal", "saltAlarm">>,
     <<"date", "regenCount", "regenCount">>,
     <<"timestamp", "powerOutage">>}

Histories ==
    {None,
     Some([isdict |-> FALSE, codes |-> None, lines |-> None]),
     Some([isdict |-> TRUE, codes |-> None, lines |-> None]),
     Some([isdict |-> TRUE, codes |-> Some(<<"date", "regenCount">>), lines |-> None]),
     Some([isdict |-> TRUE, codes |-> None, lines |-> Some(<<<<JStr(D1), JInt(3)>>>>)])}
    \cup {Some([isdict |-> TRUE, codes |-> Some(c), lines |-> Some(l)]) :
            c \in CodeLists, l \in SeqsUpTo(HistoryRows, MaxLines)}

DatasetObj(ls, h) ==
    [connectable |-> Some(TRUE), connected |-> None, online |-> Some(FALSE),
     lastSeenDateTime |-> ls, history |-> h]

\* A body whose dataset is the object itself.
ObjectBody(obj) ==
    [json_err |-> "none", top |-> "dict",
     dataset |-> Some([islist |-> FALSE, len |-> 0,
                       elem |-> [isdict |-> TRUE, obj |-> obj]])]

\* A body whose dataset is an array of n elements, the first one elem.
ArrayBody(n, isdict, obj) ==
    [json_err |-> "none", top |-> "dict",
     dataset |-> Some([islist |-> TRUE, len |-> n,
                       elem |-> [isdict |-> isdict, obj |-> obj]])]

PlainObj == DatasetObj(None, None)

LastSeenValues ==
    {None, Some(<<>>), Some(<<"2024-01-02T10:00:00", "Z">>),
     Some(<<"2024-01-02T10:00:00">>), Some(<<"yesterday">>)}

MalformedBodies ==
    {[json_err |-> e, top |-> "dict", dataset |-> None] : e \in {"ClientError", "ValueError"}}
    \cup {[json_err |-> "none", top |-> t, dataset |-> None] : t \in {"dict", "list", "scalar"}}
    \cup {ArrayBody(0, TRUE, PlainObj), ArrayBody(1, FALSE, PlainObj),
          [json_err |-> "none", top |-> "dict",
           dataset |-> Some([islist |-> FALSE, len |-> 0,
                             elem |-> [isdict |-> FALSE, obj |-> PlainObj]])]}

AjaxBodies ==
    MalformedBodies
    \cup {ObjectBody(DatasetObj(Some(<<"2024-01-02T10:00:00", "Z">>), h)) : h \in Histories}
    \cup {ObjectBody(DatasetObj(ls, None)) : ls \in LastSeenValues}
    \cup {ArrayBody(n, TRUE, DatasetObj(None, Some([isdict |-> TRUE,
                        codes |-> Some(<<"date", "regenCount">>),
                        lines |-> Some(<<<<JStr(D2), JInt(3)>>>>)]))) : n \in {1, 2}}

InitAjax ==
    /\ ClientInit /\ MachineInit /\ SessionInit /\ HostInit /\ PortalInit
    /\ fin \in [body : AjaxBodies, today_str : Dates]
    /\ fout = None

ApplyAjax ==
    /\ fout = None
    /\ fout' = Some(FetchAjaxData([err |-> "none", status |-> 200, body |-> fin.body],
                                  fin.today_str))
    /\ UNCHANGED <<client, machine, fin, session, host, portal>>

NextAjax == ApplyAjax

SpecAjax == InitAjax /\ [][NextAjax]_vars

\* The body is a valid dataset: an object, or a non-empty array whose first
\* element is an object, with a history table that is absent or an object.
ValidDataset(body) ==
    /\ body.json_err = "none" /\ body.top = "dict" /\ body.dataset # None
    /\ body.dataset[1].islist => body.dataset[1].len > 0
    /\ body.dataset[1].elem.isdict
    /\ body.dataset[1].elem.obj.history # None =>
           body.dataset[1].elem.obj.history[1].isdict

\* The rows and the codes of a valid dataset's history table.
LinesOf(body) ==
    LET h == body.dataset[1].elem.obj.history
    IN  IF h = None \/ h[1].lines = None THEN <<>> ELSE h[1].lines[1]

CodesOf(body) ==
    LET h == body.dataset[1].elem.obj.history
    IN  IF h = None \/ h[1].codes = None THEN <<>> ELSE h[1].codes[1]

\* Row i has a first column that, as a string, starts with the date.
RowIsOf(row, date) ==
    /\ row # <<>>
    /\ LET c == IF row[1].t = "str" THEN row[1].s ELSE <<IntStr(row[1].n)>>
       IN  Len(c) >= Len(date) /\ \A j \in 1..Len(date) : c[j] = date[j]

HistoryKeys == {"data_date", "regen_count", "power_outage", "water_use", "salt_alarm"}

\* C8 as stated: for every valid dataset without a row of today - rows of
\* other days only, no row at all, or no history table - the JSON scrape
\* yields the four zero counters and data_date = today.
C8_ZeroDefaultsWithoutRow ==
    (/\ fout # None
     /\ ValidDataset(fin.body)
     /\ \A i \in 1..Len(LinesOf(fin.body)) : ~RowIsOf(LinesOf(fin.body)[i], fin.today_str))
    => /\ fout[1].kind = "return"
       /\ HistoryKeys \subseteq DOMAIN fout[1].val[1]
       /\ fout[1].val[1]["data_date"] = JStr(fin.today_str)
       /\ \A k \in HistoryKeys \ {"data_date"} : fout[1].val[1][k] = JInt(0)

\* The column code that feeds a key of the record.
CodeOfKey(k) ==
    CASE k = "data_date" -> "date"
      [] k = "regen_count" -> "regenCount"
      [] k = "power_outage" -> "powerOutage"
      [] k = "water_use" -> "waterUse"
      [] k = "salt_alarm" -> "saltAlarm"

\* The first row of today, when there is one.
FirstRowOf(lines, date) ==
    lines[CHOOSE i \in 1..Len(lines) :
            /\ RowIsOf(lines[i], date)
            /\ \A j \in 1..(i - 1) : ~RowIsOf(lines[j], date)]

\* C9: when some row's first column, as a string, starts with today's date,
\* the record is filled from the first such row: for each position i below
\* both len(codes) and the row's length, row[i] goes to the key of codes[i]
\* (the last such position when a code is repeated); a key none of whose
\* positions exists is absent, so no zero default is written, and the codes
\* outside the five add no key.
C9_FirstRowOfTodayMapped ==
    (/\ fout # None
     /\ ValidDataset(fin.body)
     /\ \E i \in 1..Len(LinesOf(fin.body)) : RowIsOf(LinesOf(fin.body)[i], fin.today_str))
    => /\ fout[1].kind = "return"
       /\ LET row == FirstRowOf(LinesOf(fin.body), fin.today_str)
              codes == CodesOf(fin.body)
              data == fout[1].val[1]
              At(k) == {i \in 1..Len(codes) : i <= Len(row) /\ codes[i] = CodeOfKey(k)}
          IN  /\ DOMAIN data \subseteq
                    HistoryKeys \cup {"connectable", "connected", "online", "last_seen"}
              /\ \A k \in HistoryKeys :
                    IF At(k) = {}
                    THEN k \notin DOMAIN data
                    ELSE /\ k \in DOMAIN data
                         /\ data[k] = row[CHOOSE i \in At(k) : \A j \in At(k) : j <= i]

\* The second row is the first of today; it is longer than the codes list
\* names columns for, and one code is outside the five.
C9_Witness ==
    /\ fout # None
    /\ ValidDataset(fin.body)
    /\ Len(LinesOf(fin.body)) = 2
    /\ ~RowIsOf(LinesOf(fin.body)[1], fin.today_str)
    /\ LinesOf(fin.body)[1] # <<>>
    /\ RowIsOf(LinesOf(fin.body)[2], fin.today_str)
    /\ Len(LinesOf(fin.body)[2]) = 3
    /\ CodesOf(fin.body) = <<"date", "wifiSignal", "saltAlarm">>
    /\ fout[1].kind = "return"
    /\ fout[1].val[1]["salt_alarm"] = JInt(120)
    /\ "regen_count" \notin DOMAIN fout[1].val[1]

\* C22 as stated: for every 200 body that decodes as JSON, the JSON scrape
\* returns a record or fails with DataNotFoundError, and with
\* DataNotFoundError when 'dataset' is absent, an empty array or not
\* ultimately an object; no other exception leaves it for a malformed body.
C22_RecordOrDataNotFound ==
    (fout # None /\ fin.body.json_err = "none")
    => /\ fout[1].kind = "return" \/ fout[1].cls = "DataNotFoundError"
       /\ (\/ fin.body.dataset = None
           \/ fin.body.dataset[1].islist /\ fin.body.dataset[1].len = 0
           \/ ~fin.body.dataset[1].elem.isdict)
          => (fout[1].kind = "raise" /\ fout[1].cls = "DataNotFoundError")

----------------------------------------------------------------------------
(* SpecDate: the HTML scrape's service date over every extracted string.   *)

MaxDateLen == 5

DateChunks == {"04", "31", "2024", "-", "x"}

InitDate ==
    /\ ClientInit /\ MachineInit /\ SessionInit /\ HostInit /\ PortalInit
    /\ fin \in SeqsUpTo(DateChunks, MaxDateLen)
    /\ fout = None

\* The device page whose informations div holds the one span
\* "Mise en service le <date_str>".
ServiceDatePage(date_str) ==
    [title |-> None,
     info |-> Some(<< <<"Mise en service ", "le", " ">> \o date_str >>)]

ApplyDate ==
    /\ fout = None
    /\ fout' = Some(FetchHtmlData([err |-> "none", status |-> 200,
                                   body |-> ServiceDatePage(fin)]))
    /\ UNCHANGED <<client, machine, fin, session, host, portal>>

NextDate == ApplyDate

SpecDate == InitDate /\ [][NextDate]_vars

\* DD-MM-YYYY: two digits, two digits, four digits.
IsDDMMYYYY(s) ==
    /\ Len(s) = 5
    /\ s[1] \in {"04", "31"} /\ s[2] = "-"
    /\ s[3] \in {"04", "31"} /\ s[4] = "-"
    /\ s[5] = "2024"

\* C10 as stated: a DD-MM-YYYY string becomes YYYY-MM-DD and every other
\* string is returned as extracted.
C10_OnlyDatesConverted ==
    fout # None =>
        /\ fout[1].kind = "return"
        /\ fout[1].val[1]["service_date"] =
              IF IsDDMMYYYY(fin) THEN <<fin[5], "-", fin[3], "-", fin[1]>> ELSE fin

----------------------------------------------------------------------------
(* The config entry: setup, polling through the coordinator, unload        *)
(* (__init__.py, coordinator.py).  The host's coroutines run on the same   *)
(* stack as the client's, below them.                                      *)

\* A new session and a new client built on it (__init__.py 39-50,
\* config_flow.py 45-55).
NewClient ==
    /\ is_authenticated' = FALSE
    /\ username' = None
    /\ password' = None
    /\ receipt_line_key' = None
    /\ session_closed' = FALSE
    /\ session_closes' = 0

\* await session.close(), n times in a row.
SessionClose(n) ==
    /\ session_closed' = (session_closed \/ n > 0)
    /\ session_closes' = session_closes + n

\* The credentials stored in the entry (__init__.py 27-28).
EntryCredentials == {<<"alice", "pw">>, <<"", "pw">>}

\* "Authentication" in str(err) (__init__.py 66): the chunks of the
\* messages that hold the word, capital A included.
MentionsAuthentication(msg) ==
    \E i \in 1..Len(msg) :
        msg[i] \in {"Authentication failed - login form still present",
                    "Authentication failed", "Authentication failed: "}

\* The except clause of async_setup_entry (__init__.py 63-68), the
\* session.close() apart.
SetupExcept(err) ==
    IF MentionsAuthentication(err.msg)
    THEN Raise("ConfigEntryAuthFailed", <<"Authentication failed: ">> \o err.msg)
    ELSE Raise("ConfigEntryNotReady", <<"Failed to setup BWT MyService: ">> \o err.msg)

\* async_setup_entry up to the await of authenticate (__init__.py 22-55).
Call_async_setup_entry(u, p) ==
    /\ stack = <<>>
    /\ ~loaded
    /\ NewClient
    /\ stack' = <<Frame("async_setup_entry", "authenticate", u, p),
                  Frame("authenticate", "warmup", u, p)>>
    /\ call' = "authenticate"
    /\ ret' = NoRet
    /\ log' = <<>>
    /\ UNCHANGED <<fin, fout, host, portal>>

\* async_setup_entry when authenticate is over (__init__.py 55-68): its
\* exception goes to the except clause; a False would close the session and
\* raise ConfigEntryAuthFailed inside the try block, so that the except
\* clause closes and raises again; otherwise the key is fetched.
async_setup_entry_authenticate ==
    /\ Running("async_setup_entry", {"authenticate"})
    /\ ret.kind # "none"
    /\ IF ret.kind = "raise"
       THEN /\ SessionClose(1)
            /\ stack' = Pop
            /\ ret' = SetupExcept(ret)
            /\ UNCHANGED <<call, log>>
       ELSE IF ret.val[1] = FALSE
       THEN /\ SessionClose(2)
            /\ stack' = Pop
            /\ ret' = SetupExcept(Raise("ConfigEntryAuthFailed", <<"Authentication failed">>))
            /\ UNCHANGED <<call, log>>
       ELSE /\ stack' = Await("key", Frame("get_receipt_line_key", "start", "", ""))
            /\ call' = "get_receipt_line_key"
            /\ ret' = NoRet
            /\ log' = <<>>
            /\ UNCHANGED session
    /\ UNCHANGED <<client, fin, fout, host, portal>>

\* async_setup_entry when get_receipt_line_key is over (__init__.py 61-78):
\* the except clause, or the coordinator is created and refreshed for the
\* first time.
async_setup_entry_key ==
    /\ Running("async_setup_entry", {"key"})
    /\ ret.kind # "none"
    /\ IF ret.kind = "raise"
       THEN /\ SessionClose(1)
            /\ stack' = Pop
            /\ ret' = SetupExcept(ret)
            /\ UNCHANGED <<call, log, host, portal>>
       ELSE /\ stack' = Goto("first_refresh")
                        \o <<Frame("_async_update_data", "fetch", "", ""),
                             Frame("get_device_data", "start", "", "")>>
            /\ call' = "get_device_data"
            /\ ret' = NoRet
            /\ log' = <<>>
            /\ coordinator_data' = None
            /\ last_update_success' = TRUE
            /\ UNCHANGED <<session, loaded, entries>>
    /\ UNCHANGED <<client, fin, fout, portal>>

\* Mutant: only the client's own exceptions are converted.
UpdateData_OwnErrorsOnly(r) ==
    IF r.kind # "raise" THEN r
    ELSE IF r.cls = "AuthenticationError"
    THEN Raise("UpdateFailed", <<"Authentication failed: ">> \o r.msg)
    ELSE IF r.cls = "ConnectionError"
    THEN Raise("UpdateFailed", <<"Connection error: ">> \o r.msg)
    ELSE r

\* _async_update_data (coordinator.py 48-64) for the outcome r of
\* get_device_data.
UpdateData(r) ==
    IF r.kind # "raise" THEN r
    ELSE IF r.cls = "AuthenticationError"
    THEN Raise("UpdateFailed", <<"Authentication failed: ">> \o r.msg)
    ELSE IF r.cls = "ConnectionError"
    THEN Raise("UpdateFailed", <<"Connection error: ">> \o r.msg)
    ELSE Raise("UpdateFailed", <<"Error updating data: ">> \o r.msg)

\* _async_update_data when get_device_data is over (coordinator.py 39-64).
async_update_data ==
    /\ Running("_async_update_data", {"fetch"})
    /\ ret.kind # "none"
    /\ stack' = Pop
    /\ ret' = UpdateData(ret)
    /\ UNCHANGED <<client, call, log, fin, fout, session, host, portal>>

\* DataUpdateCoordinator, from which BWTDataUpdateCoordinator inherits its
\* refresh (coordinator.py 15, 31-36): a record replaces the data, a failure
\* keeps the last record and clears last_update_success.
Refreshed(r) ==
    IF r.kind = "return"
    THEN [data |-> r.val, success |-> TRUE]
    ELSE [data |-> coordinator_data, success |-> FALSE]

\* async_setup_entry when the first refresh is over (__init__.py 78-93): a
\* failed first refresh raises ConfigEntryNotReady out of async_setup_entry;
\* otherwise the coordinator and the client are stored and the platforms
\* create their entities.
async_setup_entry_first_refresh ==
    /\ Running("async_setup_entry", {"first_refresh"})
    /\ ret.kind # "none"
    /\ coordinator_data' = Refreshed(ret).data
    /\ last_update_success' = Refreshed(ret).success
    /\ loaded' = (ret.kind = "return")
    /\ ret' = IF ret.kind = "return"
              THEN Return(TRUE)
              ELSE Raise("ConfigEntryNotReady", ret.msg)
    /\ stack' = Pop
    /\ UNCHANGED <<client, call, log, fin, fout, portal, session, entries>>

\* A scheduled refresh of the coordinator of a loaded entry: it awaits
\* _async_update_data (coordinator.py 31-36, 39).
Call_async_refresh ==
    /\ stack = <<>>
    /\ loaded
    /\ stack' = <<Frame("async_refresh", "update", "", ""),
                  Frame("_async_update_data", "fetch", "", ""),
                  Frame("get_device_data", "start", "", "")>>
    /\ call' = "get_device_data"
    /\ ret' = NoRet
    /\ log' = <<>>
    /\ UNCHANGED <<client, fin, fout, session, host, portal>>

\* The refresh when _async_update_data is over.
async_refresh ==
    /\ Running("async_refresh", {"update"})
    /\ ret.kind # "none"
    /\ coordinator_data' = Refreshed(ret).data
    /\ last_update_success' = Refreshed(ret).success
    /\ stack' = Pop
    /\ UNCHANGED <<client, ret, call, log, fin, fout, portal, session, loaded, entries>>

\* Mutant: the entry's data are dropped and the client is left open.
UnloadEntry_KeepSession(unload_ok, closed, closes) ==
    [closed |-> closed, closes |-> closes, loaded |-> ~unload_ok]

\* async_unload_entry from the outcome unload_ok of async_unload_platforms
\* on (__init__.py 108-118): when the platforms unloaded, the entry's data
\* are dropped and the client is closed.
UnloadEntry(unload_ok, closed, closes) ==
    IF unload_ok
    THEN [closed |-> CloseSession(closed, closes).closed,
          closes |-> CloseSession(closed, closes).closes,
          loaded |-> FALSE]
    ELSE [closed |-> closed, closes |-> closes, loaded |-> TRUE]

\* async_unload_entry (__init__.py 101-118).
async_unload_entry ==
    /\ stack = <<>>
    /\ loaded
    /\ \E unload_ok \in BOOLEAN :
          LET x == UnloadEntry(unload_ok, session_closed, session_closes)
          IN  /\ session_closed' = x.closed
              /\ session_closes' = x.closes
              /\ loaded' = x.loaded
              /\ ret' = Return(unload_ok)
    /\ call' = "async_unload_entry"
    /\ log' = <<>>
    /\ UNCHANGED <<client, stack, fin, fout, portal, coordinator_data, last_update_success, entries>>

\* async_update_options (__init__.py 96-98): the entry is reloaded, that is
\* unloaded and, when the unload succeeded, set up again.  This step is the
\* unload.
Call_async_update_options ==
    /\ stack = <<>>
    /\ loaded
    /\ \E unload_ok \in BOOLEAN :
          LET x == UnloadEntry(unload_ok, session_closed, session_closes)
          IN  /\ session_closed' = x.closed
              /\ session_closes' = x.closes
              /\ loaded' = x.loaded
              /\ stack' = IF unload_ok
                          THEN <<Frame("async_update_options", "reload",
                                       username[1], password[1])>>
                          ELSE <<>>
    /\ call' = "async_update_options"
    /\ ret' = NoRet
    /\ log' = <<>>
    /\ UNCHANGED <<client, fin, fout, portal, coordinator_data, last_update_success, entries>>

\* The reload sets the entry up again: async_setup_entry up to the await of
\* authenticate (__init__.py 98, 22-55).
async_update_options_reload ==
    /\ Running("async_update_options", {"reload"})
    /\ NewClient
    /\ stack' = Goto("setup")
                \o <<Frame("async_setup_entry", "authenticate", Top.u, Top.p),
                     Frame("authenticate", "warmup", Top.u, Top.p)>>
    /\ call' = "authenticate"
    /\ ret' = NoRet
    /\ log' = <<>>
    /\ UNCHANGED <<fin, fout, host, portal>>

\* async_update_options when the reload is over (__init__.py 98).
async_update_options_done ==
    /\ Running("async_update_options", {"setup"})
    /\ ret.kind # "none"
    /\ stack' = Pop
    /\ ret' = IF ret.kind = "return" THEN Return(None) ELSE ret
    /\ UNCHANGED <<client, call, log, fin, fout, session, host, portal>>

InitEntry ==
    /\ ClientInit /\ MachineInit /\ SessionInit /\ HostInit /\ PortalInit
    /\ fin = None
    /\ fout = None

NextEntry ==
    \/ \E c \in EntryCredentials : Call_async_setup_entry(c[1], c[2])
    \/ async_setup_entry_authenticate
    \/ async_setup_entry_key
    \/ async_setup_entry_first_refresh
    \/ Call_async_refresh
    \/ async_refresh
    \/ async_update_data
    \/ async_unload_entry
    \/ Call_async_update_options
    \/ async_update_options_reload
    \/ async_update_options_done
    \/ authenticate_warmup
    \/ authenticate_post
    \/ get_receipt_line_key_start
    \/ get_receipt_line_key_resume
    \/ get_receipt_line_key_dashboard
    \/ get_receipt_line_key_retry
    \/ get_device_data_start
    \/ get_device_data_resume
    \/ get_device_data_ajax
    \/ get_device_data_html

SpecEntry == InitEntry /\ [][NextEntry]_vars

----------------------------------------------------------------------------
(* The entities of a loaded entry (sensor.py, binary_sensor.py).           *)

\* An entity description: its key, the field of the record its value_fn
\* reads, and the parser value_fn passes the field through ("none" when it
\* hands the field on).
Description(key, field, parse) == [key |-> key, field |-> field, parse |-> parse]

\* sensor.py 35-124
SENSORS ==
    {Description("water_consumption", "water_use", "none"),
     Description("regenerations_today", "regen_count", "none"),
     Description("hardness_in", "hardness_in", "none"),
     Description("hardness_out", "hardness_out", "none"),
     Description("water_pressure", "water_pressure", "none"),
     Description("last_seen", "last_seen", "timestamp"),
     Description("serial_number", "serial_number", "none"),
     Description("service_date", "service_date", "date"),
     Description("holiday_mode", "holiday_mode", "none"),
     Description("salt_type", "salt_type", "none"),
     Description("regen_start_hour", "regen_start_hour", "none"),
     Description("wifi_signal", "wifi_signal", "none")}

\* binary_sensor.py 33-69
BINARY_SENSORS ==
    {Description("connected", "connected", "none"),
     Description("online", "online", "none"),
     Description("connectable", "connectable", "none"),
     Description("power_outage", "power_outage", "none"),
     Description("salt_alarm", "salt_alarm", "none")}

\* data.get(k)
DictGet(data, k) == IF k \in DOMAIN data THEN Some(data[k]) ELSE None

\* _parse_timestamp (sensor.py 127-137)
ParseTimestamp(value) ==
    IF value = None \/ value[1] = <<>>
    THEN None
    ELSE IF IsIsoFormat(ReplaceZ(value[1])) THEN Some(ReplaceZ(value[1])) ELSE None

\* date.fromisoformat(s) succeeds: YYYY-MM-DD, a day of the calendar.
IsIsoDate(s) ==
    /\ Len(s) = 5
    /\ s[1] = "2024" /\ s[2] = "-"
    /\ s[3] \in {"04", "06"} /\ s[4] = "-"
    /\ s[5] \in {"04", "06"}

\* _parse_date (sensor.py 140-150)
ParseDate(value) ==
    IF value = None \/ value[1] = <<>>
    THEN None
    ELSE IF IsIsoDate(value[1]) THEN value ELSE None

\* entity_description.value_fn(data)
ValueFn(e, data) ==
    CASE e.parse = "timestamp" -> ParseTimestamp(DictGet(data, e.field))
      [] e.parse = "date" -> ParseDate(DictGet(data, e.field))
      [] OTHER -> DictGet(data, e.field)

\* Mutant: the sensor is available whenever the record gives it a value.
SensorAvailable_IgnoringPoll(e) == ValueFn(e, coordinator_data[1]) # None

\* BWTSensor.available (sensor.py 225-233)
SensorAvailable(e) ==
    IF ~last_update_success
    THEN FALSE
    ELSE ValueFn(e, coordinator_data[1]) # None

\* BWTBinarySensor.available (binary_sensor.py 153-161)
BinarySensorAvailable(e) ==
    IF ~last_update_success
    THEN FALSE
    ELSE ValueFn(e, coordinator_data[1]) # None

\* The entities the two platforms create (sensor.py 166-171,
\* binary_sensor.py 85-90) and their availability.
Entities == SENSORS \cup BINARY_SENSORS

Available(e) == IF e \in SENSORS THEN SensorAvailable(e) ELSE BinarySensorAvailable(e)

----------------------------------------------------------------------------
(* Claims about the entry, checked under SpecEntry.                        *)

\* async_setup_entry is about to handle the failure of the authenticate or
\* of the get_receipt_line_key it awaited.
SetupFailing == Running("async_setup_entry", {"authenticate", "key"}) /\ ret.kind = "raise"

\* C12 as stated: when authenticate or get_receipt_line_key fails during
\* async_setup_entry, the setup raises ConfigEntryAuthFailed exactly when the
\* failure is an AuthenticationError, and ConfigEntryNotReady for every
\* ConnectionError and DataNotFoundError.
C12_AuthFailedForAuthenticationError ==
    [][SetupFailing
       => /\ ret'.kind = "raise"
          /\ (ret'.cls = "ConfigEntryAuthFailed") <=> (ret.cls = "AuthenticationError")
          /\ ret.cls \in {"ConnectionError", "DataNotFoundError"}
                => ret'.cls = "ConfigEntryNotReady"]_vars


\* C18: _async_update_data hands the record of get_device_data on as it is,
\* and turns every exception of get_device_data into UpdateFailed; it
\* yields no record when get_device_data failed.
C18_UpdateReturnsRecordOrFails ==
    [][(Running("_async_update_data", {"fetch"}) /\ ret.kind # "none")
       => IF ret.kind = "return"
          THEN ret' = ret
          ELSE ret'.kind = "raise" /\ ret'.cls = "UpdateFailed" /\ ret'.val = None]_vars

\* A refresh is about to take the UpdateFailed made of an exception that
\* the transport raised at the HTML GET and that is none of the client's.
C18_Witness ==
    /\ Running("async_refresh", {"update"})
    /\ ret.kind = "raise" /\ ret.cls = "UpdateFailed"
    /\ Contains(ret.msg, "Error updating data: ")
    /\ Sent("GET /device") # {}
    /\ Last(log).err = "Exception"

\* The refresh of a loaded entry takes a failure, or a record.
PollFailed == Running("async_refresh", {"update"}) /\ ret.kind = "raise"
PollSucceeded == Running("async_refresh", {"update"}) /\ ret.kind = "return"

\* The entity's field is in the record.
FieldPresent(e, data) == e.field \in DOMAIN data

\* The entity's field is in the record and, for the timestamp and the date
\* sensor, is a non-empty string in ISO format.
FieldUsable(e, data) ==
    /\ FieldPresent(e, data)
    /\ e.parse = "timestamp"
          => (data[e.field] # <<>> /\ IsIsoFormat(ReplaceZ(data[e.field])))
    /\ e.parse = "date"
          => (data[e.field] # <<>> /\ IsIsoDate(data[e.field]))

\* C19 as stated: an entity is available exactly when the last poll
\* succeeded and its field is present in the coordinator's record.
C19_Original ==
    loaded => \A e \in Entities :
                 Available(e) <=> (last_update_success /\ FieldPresent(e, coordinator_data[1]))

\* C19 amended: an entity is available exactly when the last poll succeeded
\* and its field is present in the coordinator's record and, for last_seen
\* and service_date, parses as an ISO timestamp or date; a failed poll
\* leaves the record as it was and every entity unavailable; a successful
\* poll replaces the record and makes available the entities whose field
\* the new record holds.
C19_AvailableWhenPolledAndUsable ==
    /\ [](loaded => \A e \in Entities :
                       Available(e) <=> (last_update_success
                                         /\ FieldUsable(e, coordinator_data[1])))
    /\ [][PollFailed
          => /\ coordinator_data' = coordinator_data
             /\ coordinator_data # None
             /\ \A e \in Entities : ~Available(e)']_vars
    /\ [][PollSucceeded
          => /\ coordinator_data' = ret.val
             /\ \A e \in Entities : Available(e)' <=> FieldUsable(e, ret.val[1])]_vars

\* A poll of a loaded entry has just failed: the coordinator still holds a
\* record with a serial number, and the serial number sensor is
\* unavailable.
C19_Witness ==
    /\ loaded /\ stack = <<>>
    /\ ret.kind = "raise" /\ ret.cls = "UpdateFailed"
    /\ ~last_update_success
    /\ coordinator_data # None
    /\ FieldUsable(Description("serial_number", "serial_number", "none"), coordinator_data[1])
    /\ ~Available(Description("serial_number", "serial_number", "none"))

\* A step of a poll: the coordinator's refresh is starting or under way.
Polling ==
    \/ stack # <<>> /\ stack[1].fn = "async_refresh"
    \/ stack' # <<>> /\ stack'[1].fn = "async_refresh"

\* A step that unloads the entry, on its own or as the first half of a reload.
Unloading == loaded /\ ~loaded'

\* C21: over setups, polls, option updates and unloads, no poll closes the
\* client; while the entry's data are in hass.data the client is open and was
\* never closed; the data are removed only by async_unload_entry (called
\* directly or by the reload) when the platforms unloaded, and that step
\* closes the client, which is not closed a second time; when the platforms
\* did not unload the data stay and the client stays open.
C21_ClosedOnceOnUnload ==
    /\ [](loaded => (~session_closed /\ session_closes = 0))
    /\ [][Polling => UNCHANGED session]_vars
    /\ [][Unloading
          => /\ call' \in {"async_unload_entry", "async_update_options"}
             /\ session_closed' /\ session_closes' = 1]_vars
    /\ [][(loaded /\ loaded') => UNCHANGED session]_vars
    /\ [][session_closed => session_closes' <= session_closes]_vars

\* The entry was set up, and has now been unloaded: its data are gone and its
\* client was closed once.
C21_Witness ==
    /\ stack = <<>> /\ call = "async_unload_entry"
    /\ ret = Return(TRUE)
    /\ ~loaded /\ coordinator_data # None
    /\ session_closed /\ session_closes = 1

\* The step in which an error leaves async_setup_entry.
SetupRaises ==
    /\ Running("async_setup_entry", {"authenticate", "key", "first_refresh"})
    /\ ret.kind # "none"
    /\ Len(stack') < Len(stack)
    /\ ret'.kind = "raise"

\* C31 as stated: whenever async_setup_entry fails - in authenticate, in
\* get_receipt_line_key or in the coordinator's first refresh - the session
\* it created is closed when the error leaves it, and nothing is stored in
\* hass.data for the entry.
C31_FailedSetupClosesSession ==
    [][SetupRaises => (session_closed' /\ ~loaded')]_vars

----------------------------------------------------------------------------
(* The setup form (config_flow.py): validate_input and async_step_user.    *)

\* What the user types into the form.
FlowCredentials == {<<"alice", "pw">>, <<"alice", "pw2">>}

\* A FlowResult: the form shown again with errors["base"] (None without
\* error), or the entry to create.
ShowForm(base) ==
    [type |-> "form", errors |-> base, title |-> <<>>, username |-> "", password |-> ""]
CreateEntry(title, u, p) ==
    [type |-> "create_entry", errors |-> None, title |-> title, username |-> u, password |-> p]

\* Mutant: the session is closed on the way out of a successful validation
\* only.
ValidateInputExit_CloseOnReturn(r) ==
    [ret |-> IF r.kind = "raise"
             THEN r
             ELSE Return([title |-> <<"BWT MyService">>, receipt_line_key |-> r.val[1]]),
     closes |-> IF r.kind = "raise" THEN 0 ELSE 1]

\* The way out of validate_input's try statement (config_flow.py 57-80) for
\* the outcome r of get_receipt_line_key or a failure of authenticate: the
\* info returned or the exception raised again, and how many times the
\* finally clause closes the session.
ValidateInputExit(r) ==
    [ret |-> IF r.kind = "raise"
             THEN r
             ELSE Return([title |-> <<"BWT MyService">>, receipt_line_key |-> r.val[1]]),
     closes |-> 1]

\* async_step_user with the user's input, up to validate_input's await of
\* authenticate (config_flow.py 88-96, 28-60).
Call_async_step_user(u, p) ==
    /\ stack = <<>>
    /\ NewClient
    /\ stack' = <<Frame("async_step_user", "validate", u, p),
                  Frame("validate_input", "authenticate", u, p),
                  Frame("authenticate", "warmup", u, p)>>
    /\ call' = "authenticate"
    /\ ret' = NoRet
    /\ log' = <<>>
    /\ UNCHANGED <<fin, fout, host, portal>>

\* async_step_user without input (config_flow.py 88-94, 124-136): the form.
async_step_user_form ==
    /\ stack = <<>>
    /\ ret' = Return(ShowForm(None))
    /\ UNCHANGED <<client, stack, call, log, fin, fout, session, host, portal>>

\* validate_input when authenticate is over (config_flow.py 57-66, 75-80).
validate_input_authenticate ==
    /\ Running("validate_input", {"authenticate"})
    /\ ret.kind # "none"
    /\ IF ret.kind = "return" /\ ret.val[1] = TRUE
       THEN /\ stack' = Await("key", Frame("get_receipt_line_key", "start", "", ""))
            /\ call' = "get_receipt_line_key"
            /\ ret' = NoRet
            /\ log' = <<>>
            /\ UNCHANGED session
       ELSE LET x == ValidateInputExit(
                        IF ret.kind = "raise"
                        THEN ret
                        ELSE Raise("AuthenticationError", <<"Authentication failed">>))
            IN  /\ SessionClose(x.closes)
                /\ stack' = Pop
                /\ ret' = x.ret
                /\ UNCHANGED <<call, log>>
    /\ UNCHANGED <<client, fin, fout, host, portal>>

\* validate_input when get_receipt_line_key is over (config_flow.py 66-80).
validate_input_key ==
    /\ Running("validate_input", {"key"})
    /\ ret.kind # "none"
    /\ LET x == ValidateInputExit(ret)
       IN  /\ SessionClose(x.closes)
           /\ ret' = x.ret
    /\ stack' = Pop
    /\ UNCHANGED <<client, call, log, fin, fout, host, portal>>

\* Mutant: DataNotFoundError is reported like a connection failure.
FlowErrors_NotFoundAsConnection(cls) ==
    IF cls = "AuthenticationError" THEN "invalid_auth"
    ELSE IF cls \in {"ConnectionError", "DataNotFoundError"} THEN "cannot_connect"
    ELSE "unknown"

\* errors["base"] as the except clauses of async_step_user set it
\* (config_flow.py 114-122).
FlowErrors(cls) ==
    IF cls = "AuthenticationError" THEN "invalid_auth"
    ELSE IF cls = "ConnectionError" THEN "cannot_connect"
    ELSE "unknown"

\* self._abort_if_unique_id_configured() after async_set_unique_id(uid)
\* (config_flow.py 99-100): AbortFlow when an entry has that unique id.
AlreadyConfigured(uid, es) == \E i \in 1..Len(es) : es[i].unique_id = uid

\* Mutant: the entry is created without looking at the unique ids.
FlowStep_NoAbort(r, u, p, es) ==
    IF r.kind = "raise"
    THEN [ret |-> Return(ShowForm(Some(FlowErrors(r.cls)))), entries |-> es]
    ELSE [ret |-> Return(CreateEntry(r.val[1].title, u, p)),
          entries |-> Append(es, [unique_id |-> r.val[1].receipt_line_key,
                                  username |-> u, password |-> p])]

\* async_step_user from the outcome r of validate_input on (config_flow.py
\* 96-136), for the input u, p and the config entries es: the flow's result
\* and the entries after it.  The AbortFlow of line 100 is raised inside the
\* try block and is an Exception: the last except clause takes it.
FlowStep(r, u, p, es) ==
    IF r.kind = "raise"
    THEN [ret |-> Return(ShowForm(Some(FlowErrors(r.cls)))), entries |-> es]
    ELSE IF AlreadyConfigured(r.val[1].receipt_line_key, es)
    THEN [ret |-> Return(ShowForm(Some(FlowErrors("AbortFlow")))), entries |-> es]
    ELSE [ret |-> Return(CreateEntry(r.val[1].title, u, p)),
          entries |-> Append(es, [unique_id |-> r.val[1].receipt_line_key,
                                  username |-> u, password |-> p])]

\* async_step_user when validate_input is over (config_flow.py 96-136).
async_step_user_validate ==
    /\ Running("async_step_user", {"validate"})
    /\ ret.kind # "none"
    /\ LET x == FlowStep(ret, Top.u, Top.p, entries)
       IN  /\ ret' = x.ret
           /\ entries' = x.entries
    /\ stack' = Pop
    /\ UNCHANGED <<client, call, log, fin, fout, portal, session,
                   coordinator_data, last_update_success, loaded>>

InitFlow ==
    /\ ClientInit /\ MachineInit /\ SessionInit /\ HostInit /\ PortalInit
    /\ fin = None
    /\ fout = None

NextFlow ==
    \/ \E c \in FlowCredentials : Call_async_step_user(c[1], c[2])
    \/ async_step_user_form
    \/ validate_input_authenticate
    \/ validate_input_key
    \/ async_step_user_validate
    \/ authenticate_warmup
    \/ authenticate_post
    \/ get_receipt_line_key_start
    \/ get_receipt_line_key_resume
    \/ get_receipt_line_key_dashboard
    \/ get_receipt_line_key_retry

SpecFlow == InitFlow /\ [][NextFlow]_vars

----------------------------------------------------------------------------
(* Claims about the setup form, checked under SpecFlow.                    *)

\* A validate_input has been called and is no longer running.
ValidateInputOver ==
    /\ call # "none"
    /\ \A i \in 1..Len(stack) : stack[i].fn # "validate_input"

\* C16: once validate_input is over, whether it returned or raised, the
\* session it created is closed.
C16_ValidationSessionClosed == ValidateInputOver => session_closed

\* validate_input has just raised the DataNotFoundError of
\* get_receipt_line_key, and has closed its session.
C16_Witness ==
    /\ Running("async_step_user", {"validate"})
    /\ ret.kind = "raise" /\ ret.cls = "DataNotFoundError"
    /\ session_closed /\ session_closes = 1

\* async_step_user is about to handle the failure of validate_input.
ValidationFailing == Running("async_step_user", {"validate"}) /\ ret.kind = "raise"

\* C17: when validate_input fails, async_step_user creates no entry and
\* shows the form again, with the error invalid_auth exactly for an
\* AuthenticationError, cannot_connect exactly for the client's
\* ConnectionError, and unknown for any other exception.
C17_FormErrorFollowsFailure ==
    [][ValidationFailing
       => /\ entries' = entries
          /\ ret'.kind = "return"
          /\ ret'.val[1].type = "form"
          /\ ret'.val[1].errors # None
          /\ (ret'.val[1].errors[1] = "invalid_auth") <=> (ret.cls = "AuthenticationError")
          /\ (ret'.val[1].errors[1] = "cannot_connect") <=> (ret.cls = "ConnectionError")
          /\ ret.cls \notin {"AuthenticationError", "ConnectionError"}
                => ret'.val[1].errors[1] = "unknown"]_vars

\* The form is shown with the error unknown after a submission whose
\* dashboard page, fetched after a login that succeeded, named no device.
C17_Witness ==
    /\ stack = <<>> /\ call = "get_receipt_line_key"
    /\ ret.kind = "return" /\ ret.val[1] = ShowForm(Some("unknown"))
    /\ Sent("GET /dashboard") # {}
    /\ Last(log).req = "GET /dashboard" /\ Last(log).status = 200
    /\ receipt_line_key = None
    /\ session_closed

\* C20: no two config entries have the same unique id, and a submission
\* whose resolved key is the unique id of an entry creates none.
C20_OneEntryPerKey ==
    /\ [](\A i, j \in 1..Len(entries) :
             entries[i].unique_id = entries[j].unique_id => i = j)
    /\ [][(/\ Running("async_step_user", {"validate"})
           /\ ret.kind = "return"
           /\ AlreadyConfigured(ret.val[1].receipt_line_key, entries))
          => (entries' = entries /\ ret'.val[1].type # "create_entry")]_vars

\* With an entry for a key already there, a later submission that resolved
\* the same key has ended without a second entry.
C20_Witness ==
    /\ stack = <<>> /\ call = "get_receipt_line_key"
    /\ receipt_line_key # None
    /\ Len(entries) = 1
    /\ entries[1].unique_id = receipt_line_key[1]
    /\ ret.kind = "return" /\ ret.val[1].type = "form"

----------------------------------------------------------------------------
(* SpecExpiry: one client against a portal whose session expires once.      *)
(* The client is set up (login, key), the coordinator polls, and at some    *)
(* moment the portal drops the session; from then on it answers 401 or 403  *)
(* until it has accepted a fresh login.  The portal is otherwise in order:  *)
(* it accepts the credentials and answers 200 with well-formed pages.       *)

\* The step has sent a request.
Sends == Len(log') = Len(log) + 1

\* What the portal answers to the request the step has sent.
HonestPortal ==
    Sends =>
        LET e == Last(log')
        IN  CASE e.req = "GET /login" -> TRUE
              [] e.req = "POST /login" -> ret' = Return(TRUE)
              [] e.req = "GET /dashboard" ->
                    IF portal = "expired"
                    THEN e.status \in {401, 403}
                    ELSE e.status = 200 /\ Truthy(receipt_line_key')
              [] e.req \in ScrapeRequests ->
                    IF portal = "expired"
                    THEN e.status \in {401, 403}
                    ELSE e.status = 200 /\ e.data # None

\* The setup logs in once, with the entry's credentials (__init__.py 55).
ExpirySetup ==
    /\ ~is_authenticated /\ username = None
    /\ Call_authenticate("alice", "pw")

\* The setup resolves the key (__init__.py 61); it may also be left to the
\* first poll.
ExpiryKey ==
    /\ is_authenticated /\ ~Truthy(receipt_line_key)
    /\ Call_get_receipt_line_key

\* A poll of the coordinator (coordinator.py 50).
ExpiryPoll ==
    /\ is_authenticated
    /\ Call_get_device_data

\* The portal drops the session, once.
portal_expires ==
    /\ stack = <<>>
    /\ is_authenticated
    /\ portal = "valid"
    /\ portal' = "expired"
    /\ UNCHANGED <<client, machine, fin, fout, session, host>>

InitExpiry ==
    /\ ClientInit /\ MachineInit /\ SessionInit /\ HostInit /\ PortalInit
    /\ fin = None
    /\ fout = None

NextExpiry ==
    \/ ExpirySetup
    \/ ExpiryKey
    \/ ExpiryPoll
    \/ portal_expires
    \/ authenticate_warmup /\ HonestPortal
    \/ authenticate_post /\ HonestPortal
    \/ get_receipt_line_key_start
    \/ get_receipt_line_key_resume
    \/ get_receipt_line_key_dashboard /\ HonestPortal
    \/ get_receipt_line_key_retry /\ HonestPortal
    \/ get_device_data_start
    \/ get_device_data_resume
    \/ get_device_data_ajax /\ HonestPortal
    \/ get_device_data_html /\ HonestPortal

\* The event loop runs every coroutine that can go on, and the coordinator
\* polls again after every interval (coordinator.py 31-36).
SpecExpiry == InitExpiry /\ [][NextExpiry]_vars /\ WF_vars(NextExpiry)

\* The session has expired on a client that holds a key.
ExpiredWithKey == portal = "expired" /\ Truthy(receipt_line_key)

\* A poll has returned a record after a fresh login.
Recovered ==
    /\ portal = "renewed"
    /\ stack = <<>> /\ call = "get_device_data" /\ ret.kind = "return"

\* C30 as stated: when the session expires on a client that holds a key and
\* the portal accepts the stored credentials, then under repeated polling a
\* call of get_device_data eventually logs in again and a poll eventually
\* returns a record.
C30_RecoversFromExpiry == ExpiredWithKey ~> Recovered

====
